---- MODULE Spec2Model ----
(***************************************************************************)
(* Deep Space Explorer (phaser-space-explorer): the Play scene, the        *)
(* encounter director, the sector factory and the scene wiring, as a state *)
(* machine driven by the frames of the host framework.                     *)
(***************************************************************************)
EXTENDS Integers, Sequences, FiniteSets, Bags, TLC

(***************************************************************************)
(* 32-bit words.  A word is <<hi, lo>>, two 16-bit halves: the values of   *)
(* the generator do not fit signed 32-bit integers.                        *)
(***************************************************************************)
Half == 65536

\* Bitwise operations on 4-bit digits, tabulated from the bits
RECURSIVE BitsXor(_, _, _)
BitsXor(a, b, n) ==
  IF n = 0 THEN 0
  ELSE (((a % 2) + (b % 2)) % 2) + 2 * BitsXor(a \div 2, b \div 2, n - 1)

RECURSIVE BitsOr(_, _, _)
BitsOr(a, b, n) ==
  IF n = 0 THEN 0
  ELSE (IF (a % 2) = 1 \/ (b % 2) = 1 THEN 1 ELSE 0) + 2 * BitsOr(a \div 2, b \div 2, n - 1)

XorTable == [ a \in 0..15 |-> [ b \in 0..15 |-> BitsXor(a, b, 4) ] ]
OrTable  == [ a \in 0..15 |-> [ b \in 0..15 |-> BitsOr(a, b, 4) ] ]

\* a op b on 16-bit values, digit by digit
Digits(T, a, b) ==
  T[a % 16][b % 16]
  + 16 * T[(a \div 16) % 16][(b \div 16) % 16]
  + 256 * T[(a \div 256) % 16][(b \div 256) % 16]
  + 4096 * T[a \div 4096][b \div 4096]

XorN(a, b) == Digits(XorTable, a, b)
OrN(a, b)  == Digits(OrTable, a, b)

RECURSIVE Pow2(_)
Pow2(n) == IF n = 0 THEN 1 ELSE 2 * Pow2(n - 1)

\* x | 0 for a non-negative integer below 2^31
ToWord(x) == << x \div Half, x % Half >>

Xor32(a, b) == << XorN(a[1], b[1]), XorN(a[2], b[2]) >>

\* w | c for a constant c below 2^16
OrLow(w, c) == << w[1], OrN(w[2], c) >>

Add32(a, b) ==
  LET lo == a[2] + b[2]
  IN  << (a[1] + b[1] + (lo \div Half)) % Half, lo % Half >>

\* w >>> n for 0 < n < 16
Shr32(w, n) ==
  << w[1] \div Pow2(n), (w[2] \div Pow2(n)) + ((w[1] % Pow2(n)) * Pow2(16 - n)) >>

\* Math.imul: the low 32 bits of the product, by 8-bit limbs
Imul(a, b) ==
  LET a0 == a[2] % 256  a1 == a[2] \div 256  a2 == a[1] % 256  a3 == a[1] \div 256
      b0 == b[2] % 256  b1 == b[2] \div 256  b2 == b[1] % 256  b3 == b[1] \div 256
      s0 == a0 * b0
      s1 == (a0 * b1) + (a1 * b0) + (s0 \div 256)
      s2 == (a0 * b2) + (a1 * b1) + (a2 * b0) + (s1 \div 256)
      s3 == (a0 * b3) + (a1 * b2) + (a2 * b1) + (a3 * b0) + (s2 \div 256)
  IN  << (s2 % 256) + 256 * (s3 % 256), (s0 % 256) + 256 * (s1 % 256) >>

(***************************************************************************)
(* mulberry32.  The closure's state is the word a; one call advances it by *)
(* 0x6D2B79F5 and returns the hashed state as a fraction of 2^32, kept     *)
(* here as its 32-bit numerator.                                           *)
(***************************************************************************)
Golden == << 27947, 31221 >>      \* 0x6D2B79F5

Advance(a) == Add32(a, Golden)

Mix1(a) == Imul(Xor32(a, Shr32(a, 15)), OrLow(a, 1))
Mix2(t) == Xor32(Add32(t, Imul(Xor32(t, Shr32(t, 7)), OrLow(t, 61))), t)
Mix3(t) == Xor32(t, Shr32(t, 14))

Output(a) == Mix3(Mix2(Mix1(a)))

\* Math.floor(r * 3) in the place of Math.floor(r * 2)
Floor3(w) == (w[1] * 3) \div Half

\* Math.floor(r * 2) for the fraction r = w / 2^32
Floor2(w) == w[1] \div 32768


\* The draw with index k (from 0) of the stream seeded with seed: the state
\* only ever advances by Golden, so draw k hashes seed + (k + 1) * Golden.
DrawAt(seed, k) == Output(Add32(ToWord(seed), Imul(Golden, ToWord(k + 1))))

(***************************************************************************)
(* SectorFactory: the counts and the order of the draws.                   *)
(***************************************************************************)
StarLayers    == 3
StarsPerLayer == 200
StarDraws     == StarLayers * StarsPerLayer * 2

\* planetCount = 1 + Math.floor(rand() * 2), the draw after the stars
PlanetCount(seed) == 1 + Floor2(DrawAt(seed, StarDraws))

\* The sector as the Play scene uses it: its name and its planets
SectorFactory(seed) == [ name |-> seed, planets |-> PlanetCount(seed) ]

(***************************************************************************)
(* jumpSector: (seed * 16807) % 2147483647.  The product is below 2^46     *)
(* and exact in the program's doubles; here it is reduced in pieces that   *)
(* stay below 2^31, using 2^31 = 1 (mod 2147483647).                       *)
(***************************************************************************)
JumpMul == 16807
JumpMod == 2147483647

AddMod(x, y) == IF x >= JumpMod - y THEN x - (JumpMod - y) ELSE x + y

\* the product taken with Math.imul, as a signed 32-bit integer
NextSeedImul(s) ==
  LET w == Imul(ToWord(s), ToWord(JumpMul))
      p == (IF w[1] >= 32768 THEN (w[1] - Half) * Half ELSE w[1] * Half) + w[2]
  IN  IF p < 0 THEN 0 - ((0 - p) % JumpMod) ELSE p % JumpMod

NextSeed(s) ==
  LET A  == (s \div Half) * JumpMul
      B  == (s % Half) * JumpMul
      a1 == A \div 32768
      a0 == A % 32768
  IN  AddMod(AddMod(a1 % JumpMod, (a0 * Half) % JumpMod), B % JumpMod)

(***************************************************************************)
(* Bounds of the model and the inputs of the environment.                  *)
(***************************************************************************)
MaxEnemies == 3
MaxBullets == 1
MaxDisc    == 6
MaxStarts  == 2
MaxCalls   == 2
MaxJumps   == 6
MaxFrames  == 6
MaxBatches == 4
MaxInits   == 3
MaxDraws   == 5

Scenes     == { "Title", "Play", "HUD" }
Types      == { "scout", "tank", "pulsar" }
Seeds      == { 1000 }
FirstSeeds == { 0, 1, 1000, 32768, 65535 }
GenSeeds   == { 0, 1, 65535 }
Deltas     == { 7500, 15001, 45003 }
FineDeltas == { 100, 200 }
PlayerYs   == { -40, 500 }
Dists      == { 100, 150, 200 }
Pads       == { 1, 2 }
Keys       == { "SPACE", "E", "SHIFT", "O", "ESC" }
Buttons    == { "fire", "shield", "scan" }
Tints      == { 0, 16777215 }
TitleSrcs  == { "space", "pointer", "pad" }
WinSizes   == { << 1920, 1080 >>, << 1024, 768 >>, << 800, 600 >>, << 320, 480 >> }

\* At most one of the keys or buttons S is down in a frame
Single(S)  == { { } } \cup { { x } : x \in S }
DistVecs   == [ 1..2 -> Dists ]

VARIABLES
  phase,        \* where the frame is: manager, title, clock, world, collide
  delta,        \* the delta of the current frame
  status,       \* scene key -> stopped, running, paused
  queue,        \* the scene manager's queued operations
  titleOnce,    \* the Title scene's once-handlers still registered
  hull, shield, discoveries,   \* the player's data
  shieldTimer,  \* elapsed time of the pending delayedCall, -1 when none
  seed, sector, \* this.seed and this.sector
  enemies,      \* this.enemies: the bag of the live enemies' [type, hp]
  bullets,      \* this.bullets: sequence of y positions
  timer,        \* director.timer
  photo, bloom, \* this.photo and pipes.bloom.intensity (in tenths)
  pad,          \* this.pad: 0 for null, else the pad's index
  gfx,          \* window.GFX
  gameOvers,    \* calls of gameOver() since the Play scene was created
  shieldAge,    \* time the clock has counted since shield last became true
  gen,          \* the calls of SectorFactory, statement by statement
  camera,       \* the post pipelines of the Play scene's main camera
  stage,        \* what loadSector has put into the Play scene and is there
  hud,          \* the HUD: its listeners on play.events and its elements
  page,         \* the portfolio page: its particles canvas, listeners, loop
  sliders,      \* the gallery page: its sliders, once gallery.js has loaded
  mark,         \* the place in this.bullets of the projectile followed, or 0
  last          \* what the last operation did: its name, events and counts

vars == << phase, delta, status, queue, titleOnce, hull, shield, discoveries,
           shieldTimer, seed, sector, enemies, bullets, timer, photo, bloom,
           pad, gfx, gameOvers, shieldAge, gen, camera, stage, hud, page, sliders,
           mark, last >>

playVars == << hull, shield, discoveries, shieldTimer, seed, sector, enemies,
               bullets, timer, photo, bloom, pad, gameOvers, shieldAge,
               camera, stage, hud, mark >>

\* op: the operation; keys: the keys and buttons it read as down; emitted:
\* its events; near: planets in range at its scans; finds: scans that found
\* one; kills: enemies brought to hp <= 0; fives: increments of discoveries
\* to a multiple of 5; jumps, spawns: calls of jumpSector and spawn;
\* elapsed: the accumulated time a timer compared with its threshold;
\* creates: runs of PlayScene.create; steps: the parts of update, as run;
\* index: the pad of a gamepad event; move: the direction keys, the pad's
\* buttons and axes as update found them, and the velocity it has set; within:
\* planets at 150 units or nearer at its scans; tested: the sprites its
\* scans have tested, each by the sector it was made for; cleaned: the
\* projectiles its cleanup has destroyed
Still == [ dirs |-> { }, buttons |-> { }, axes |-> << 0, 0 >>, vel |-> << 0, 0 >> ]
Quiet(name) == [ op |-> name, keys |-> { }, emitted |-> << >>, near |-> 0,
                 finds |-> 0, kills |-> 0, jumps |-> 0, fives |-> 0,
                 spawns |-> 0, elapsed |-> 0, creates |-> 0,
                 steps |-> << >>, index |-> 0, move |-> Still, within |-> 0,
                 tested |-> << >>, cleaned |-> 0 ]

\* No call of SectorFactory under way and none returned
GenIdle == [ pc |-> "idle", seed |-> 0, a |-> << 0, 0 >>, l |-> 0,
             layer |-> << >>, left |-> 0, sector |-> << >>, results |-> << >> ]

\* The Play scene with nothing added by loadSector
NoStage == [ stars |-> << >>, planets |-> << >>, nebulae |-> << >> ]

\* The HUD before HUDScene.create has run: no listener on play.events, the
\* elements shown, their texts as the page has them (-1)
HudAtLoad == [ listening |-> FALSE, hidden |-> FALSE,
               discoveries |-> -1, hull |-> -1, sector |-> -1 ]

\* The portfolio page before script.js has acted: no particles canvas
\* canvases: elements with id particles-canvas in the body; resizers: resize
\* listeners of the window; loops: pending requestAnimationFrame callbacks;
\* particles, width, height: of the canvas; frames: runs of drawParticles;
\* win: the window's inner size; calls: calls of initParticlesBackground;
\* loaded: DOMContentLoaded has fired; components: componentsInitialized,
\* set after the five init functions of the components have run;
\* showTimer: the 3 s timeout that shows the project cards has been set
PageAtLoad == [ canvases |-> 0, resizers |-> 0, loops |-> 0, particles |-> 0,
                frames |-> 0, width |-> 0, height |-> 0,
                win |-> << 1024, 768 >>, calls |-> 0,
                loaded |-> FALSE, components |-> FALSE, showTimer |-> FALSE ]

\* The gallery page before its markup is parsed.  loaded: gallery.js's
\* DOMContentLoaded listener has run; of: the .slider elements in document
\* order
NoSliders == [ loaded |-> FALSE, of |-> << >> ]

RemoveAt(s, i) == [ j \in 1..(Len(s) - 1) |-> IF j < i THEN s[j] ELSE s[j + 1] ]

\* The place of the projectile at m once the one at i has left the group
MarkWithout(m, i) == IF m = i THEN 0 ELSE IF i < m THEN m - 1 ELSE m

InitWith(period) ==
  /\ phase = "title"
  /\ delta = 0
  /\ status = [ k \in Scenes |-> IF k = "Title" THEN "running" ELSE "stopped" ]
  /\ queue = << >>
  /\ titleOnce = { "space", "pad" }
  /\ hull = 0 /\ shield = FALSE /\ discoveries = 0
  /\ shieldTimer = -1
  /\ seed = 0 /\ sector = [ name |-> 0, planets |-> 0 ]
  /\ enemies = EmptyBag /\ bullets = << >> /\ mark = 0
  /\ timer = 0
  /\ photo = FALSE /\ bloom = 6
  /\ pad = 0
  /\ gfx = [ bloom |-> TRUE, vignette |-> TRUE, particles |-> 10,
             encounterPeriod |-> period ]
  /\ gameOvers = 0
  /\ shieldAge = 0
  /\ gen = GenIdle
  /\ camera = << >>
  /\ stage = NoStage
  /\ hud = HudAtLoad
  /\ page = PageAtLoad
  /\ sliders = NoSliders
  /\ last = Quiet("boot")

\* window.GFX as the page sets it
Init == InitWith(15000)


(***************************************************************************)
(* The scene manager.  start, stop, launch and pause of a scene plugin are *)
(* queued and run, in order, at the start of the next frame.               *)
(***************************************************************************)
Op(mode, key) == [ mode |-> mode, key |-> key ]

\* One queued operation on r = [status, created, shut, title, creates,
\* listening, heard]: listening, whether HUDScene.create has added its
\* listeners; heard, whether it had when PlayScene.create last ran
ApplyOp(o, r) ==
  IF o.mode = "stop" THEN
    IF r.status[o.key] = "stopped" THEN r
    ELSE [ r EXCEPT !.status[o.key] = "stopped",
                    !.shut = IF o.key = "Play" THEN TRUE ELSE @,
                    !.created = IF o.key = "Play" THEN FALSE ELSE @ ]
  ELSE IF o.mode = "pause" THEN
    IF r.status[o.key] = "running" THEN [ r EXCEPT !.status[o.key] = "paused" ]
    ELSE r
  ELSE \* start: an active scene is shut down first, then created again
    [ r EXCEPT !.status[o.key] = "running",
               !.shut = IF o.key = "Play" THEN FALSE ELSE @,
               !.created = IF o.key = "Play" THEN TRUE ELSE @,
               !.creates = IF o.key = "Play" THEN @ + 1 ELSE @,
               !.heard = IF o.key = "Play" THEN r.listening ELSE @,
               !.listening = IF o.key = "HUD" THEN TRUE ELSE @,
               !.title = IF o.key = "Title" THEN TRUE ELSE @ ]

RECURSIVE RunQueue(_, _)
RunQueue(q, r) == IF q = << >> THEN r ELSE RunQueue(Tail(q), ApplyOp(Head(q), r))

\* The camera's post pipelines as create attaches them: bloom, then vignette
Stages(g) ==
  (IF g.bloom THEN << "bloom" >> ELSE << >>) \o
  (IF g.vignette THEN << "vignette" >> ELSE << >>)

\* Math.floor(80 * window.GFX.particles), particles in tenths
StarQuantity == 80
Quantity(g) == (StarQuantity * g.particles) \div 10

\* PlayScene.loadSector on the stage st: the particle manager of the stars
\* is destroyed and made again; this.planets and this.nebulae are new groups,
\* and the sprites of the groups they replace stay in the scene.  One entry
\* of planets is a group, one planet with its ring for each of its entries,
\* the last group being this.planets; one entry of nebulae stands for the
\* rectangles of one sector.
LoadSector(st, sec) ==
  [ stars   |-> << [ sector |-> sec.name, quantity |-> Quantity(gfx) ] >>,
    planets |-> Append(st.planets, [ i \in 1..sec.planets |-> sec.name ]),
    nebulae |-> Append(st.nebulae, sec.name) ]

\* One event of play.events at the HUD's listeners
HeardOne(h, ev) ==
  [ h EXCEPT
      !.discoveries = IF \E x \in ev : x[1] = "discoveries"
                      THEN (CHOOSE x \in ev : x[1] = "discoveries")[2] ELSE @,
      !.hull        = IF \E x \in ev : x[1] = "hull"
                      THEN (CHOOSE x \in ev : x[1] = "hull")[2] ELSE @,
      !.sector      = IF \E x \in ev : x[1] = "sector"
                      THEN (CHOOSE x \in ev : x[1] = "sector")[2] ELSE @,
      !.hidden      = IF \E x \in ev : x[1] = "photo"
                      THEN (CHOOSE x \in ev : x[1] = "photo")[2] ELSE @ ]

\* The events evs, in order, at the HUD: its listeners are those HUDScene's
\* create has added to play.events, none before its first run
RECURSIVE Heard(_, _)
Heard(h, evs) ==
  IF ~ h.listening \/ evs = << >> THEN h
  ELSE Heard(HeardOne(h, Head(evs)), Tail(evs))

\* PlayScene.create's HUD event
CreateEvent(sec) == { << "discoveries", 0 >>, << "hull", 3 >>, << "sector", sec.name >> }

\* create keeping the director of the session before, and its timer
CreateOldDirector(s, n) ==
  /\ s \in Seeds
  /\ hull' = 3 /\ shield' = FALSE /\ discoveries' = 0
  /\ shieldTimer' = -1
  /\ seed' = s /\ sector' = SectorFactory(s)
  /\ enemies' = EmptyBag /\ bullets' = << >> /\ mark' = 0
  /\ pad' = 0
  /\ gameOvers' = 0
  /\ shieldAge' = 0
  /\ UNCHANGED << photo, bloom, timer >>
  /\ camera' = Stages(gfx)
  /\ stage' = LoadSector(NoStage, sector')
  /\ last' = [ Quiet("create") EXCEPT !.emitted = << CreateEvent(sector') >>,
                                      !.creates = n ]

\* PlayScene.create, run n times by one run of the queue (the start of a
\* running scene shuts it down and creates it again), the last with seed s.
\* The scene's shutdown has removed the sprites, the groups and the clock's
\* pending calls; this.photo and the bloom intensity are left as they were.
Create(s, n) ==
  /\ s \in Seeds
  /\ hull' = 3 /\ shield' = FALSE /\ discoveries' = 0
  /\ shieldTimer' = -1
  /\ seed' = s /\ sector' = SectorFactory(s)
  /\ enemies' = EmptyBag /\ bullets' = << >> /\ mark' = 0
  /\ timer' = 0
  /\ pad' = 0
  /\ gameOvers' = 0
  /\ shieldAge' = 0
  /\ UNCHANGED << photo, bloom >>
  /\ camera' = Stages(gfx)
  /\ stage' = LoadSector(NoStage, sector')
  /\ \E first \in [ 1..(n - 1) -> Seeds ] :
       last' = [ Quiet("create") EXCEPT
                   !.emitted = [ i \in 1..n |->
                                   IF i < n
                                   THEN CreateEvent(SectorFactory(first[i]))
                                   ELSE CreateEvent(sector') ],
                   !.creates = n ]

\* The start of a frame: the queue is run; a started Play scene runs create
SceneManagerUpdate(d, s) ==
  /\ phase = "manager"
  /\ \/ queue # << >>
     \/ status["Play"] \in { "running", "paused" }
     \/ status["Title"] = "running"
  /\ \E r \in { RunQueue(queue, [ status |-> status, created |-> FALSE,
                                   shut |-> FALSE, title |-> FALSE,
                                   creates |-> 0, heard |-> FALSE,
                                   listening |-> hud.listening ]) } :
         /\ status' = r.status
         /\ queue' = << >>
         /\ titleOnce' = IF r.title THEN { "space", "pad" }
                         ELSE IF r.status["Title"] = "running" THEN titleOnce ELSE { }
         /\ phase' = IF r.status["Play"] = "running" THEN "clock"
                     ELSE IF r.status["Title"] = "running" THEN "title"
                     ELSE "manager"
         /\ delta' = IF r.status["Play"] = "running" THEN d ELSE 0
         /\ hud' = [ (IF r.created /\ r.heard
                       THEN HeardOne(hud, CreateEvent(SectorFactory(s))) ELSE hud)
                      EXCEPT !.listening = r.listening ]
         /\ IF r.created THEN Create(s, r.creates)
            ELSE
              /\ camera' = IF r.shut THEN << >> ELSE camera
              /\ stage' = IF r.shut THEN NoStage ELSE stage
              /\ enemies' = IF r.shut THEN EmptyBag ELSE enemies
              /\ bullets' = IF r.shut THEN << >> ELSE bullets
              /\ mark' = IF r.shut THEN 0 ELSE mark
              /\ shieldTimer' = IF r.shut THEN -1 ELSE shieldTimer
              /\ UNCHANGED << hull, shield, discoveries, seed, sector, timer,
                              photo, bloom, pad, gameOvers, shieldAge >>
              /\ last' = Quiet("manager")
         /\ UNCHANGED << gfx, gen, page, sliders >>

\* TitleScene.start
TitleStartOps == << Op("stop", "Title"), Op("start", "Play"), Op("start", "HUD") >>

\* The Title scene's step: the input events of the frame, in order.  The
\* keyboard and gamepad handlers are once-handlers, the pointer handler is not.
RECURSIVE TitleEvents(_, _, _)
TitleEvents(srcs, once, q) ==
  IF srcs = << >> THEN [ once |-> once, queue |-> q ]
  ELSE LET e == Head(srcs)
       IN  IF e = "pointer" THEN TitleEvents(Tail(srcs), once, q \o TitleStartOps)
           ELSE IF e \in once THEN TitleEvents(Tail(srcs), once \ { e }, q \o TitleStartOps)
           ELSE TitleEvents(Tail(srcs), once, q)

TitleInput(srcs) ==
  /\ phase = "title"
  /\ \E r \in { TitleEvents(srcs, titleOnce, queue) } :
         /\ titleOnce' = r.once
         /\ queue' = r.queue
         /\ phase' = "manager"
         /\ last' = Quiet("title")
  /\ UNCHANGED << delta, status, gfx, gen, page, sliders >>
  /\ UNCHANGED playVars

(***************************************************************************)
(* The Play scene's step: the clock, the physics world, then update.       *)
(***************************************************************************)
ShieldWindow == 300

\* The scene clock: the shield's delayedCall fires once its elapsed time
\* reaches the delay
ClockUpdate ==
  /\ phase = "clock"
  /\ phase' = "world"
  /\ IF shieldTimer >= 0 /\ shieldTimer + delta >= ShieldWindow
     THEN /\ shield' = FALSE
          /\ shieldTimer' = -1
          /\ shieldAge' = 0
          /\ last' = [ Quiet("shieldOff") EXCEPT !.elapsed = shieldAge + delta ]
     ELSE /\ shieldTimer' = IF shieldTimer >= 0 THEN shieldTimer + delta ELSE -1
          /\ shieldAge' = IF shield THEN shieldAge + delta ELSE shieldAge
          /\ UNCHANGED shield
          /\ last' = Quiet("clock")
  /\ UNCHANGED << camera, stage, hud, page, sliders, gen, delta, status, queue, titleOnce, hull, discoveries, seed,
                  sector, enemies, bullets, mark, timer, photo, bloom, pad, gfx,
                  gameOvers >>

BulletSpeed == 300

\* The physics world moves the bullets (velocity 0, -300 per second)
WorldStep ==
  /\ phase = "world"
  /\ phase' = "collide"
  /\ bullets' = [ i \in 1..Len(bullets) |-> bullets[i] - ((BulletSpeed * delta) \div 1000) ]
  /\ mark' = mark
  /\ last' = Quiet("world")
  /\ UNCHANGED << camera, stage, hud, page, sliders, gen, delta, status, queue, titleOnce, hull, shield, discoveries,
                  shieldTimer, seed, sector, enemies, timer, photo, bloom, pad,
                  gfx, gameOvers, shieldAge >>

\* enemy.destroy(): one enemy with data e leaves the group
Destroy(es, e) == es (-) SetToBag({ e })

\* PlayScene.gameOver
GameOverOps == << Op("stop", "HUD"), Op("stop", "Play"), Op("start", "Title") >>

\* playerHit without its shield check
PlayerHitUnshielded(e) ==
  /\ phase = "collide"
  /\ BagIn(e, enemies)
  /\ enemies' = Destroy(enemies, e)
  /\ hull' = hull - 1
  /\ last' = [ Quiet("playerHit") EXCEPT !.emitted = << { << "hull", hull - 1 >> } >> ]
  /\ IF hull - 1 <= 0
     THEN /\ queue' = queue \o GameOverOps
          /\ gameOvers' = gameOvers + 1
     ELSE UNCHANGED << queue, gameOvers >>
  /\ hud' = Heard(hud, last'.emitted)
  /\ UNCHANGED << camera, stage, page, sliders, gen, phase, delta, status, titleOnce, shield, discoveries,
                  shieldTimer, seed, sector, bullets, mark, timer, photo, bloom, pad,
                  gfx, shieldAge >>

\* playerHit leaving the enemy alone when the shield is up
PlayerHitBounce(e) ==
  /\ phase = "collide"
  /\ BagIn(e, enemies)
  /\ enemies' = IF shield THEN enemies ELSE Destroy(enemies, e)
  /\ IF shield THEN
       /\ UNCHANGED << hull, queue, gameOvers >>
       /\ last' = Quiet("playerHit")
     ELSE
       /\ hull' = hull - 1
       /\ last' = [ Quiet("playerHit") EXCEPT !.emitted = << { << "hull", hull - 1 >> } >> ]
       /\ IF hull - 1 <= 0
          THEN /\ queue' = queue \o GameOverOps
               /\ gameOvers' = gameOvers + 1
          ELSE UNCHANGED << queue, gameOvers >>
  /\ hud' = Heard(hud, last'.emitted)
  /\ UNCHANGED << camera, stage, page, sliders, gen, phase, delta, status, titleOnce, shield, discoveries,
                  shieldTimer, seed, sector, bullets, mark, timer, photo, bloom, pad,
                  gfx, shieldAge >>

\* PlayScene.playerHit, the overlap callback of the player and enemy e
PlayerHit(e) ==
  /\ phase = "collide"
  /\ BagIn(e, enemies)
  /\ enemies' = Destroy(enemies, e)
  /\ IF shield THEN
       /\ UNCHANGED << hull, queue, gameOvers >>
       /\ last' = Quiet("playerHit")
     ELSE
       /\ hull' = hull - 1
       /\ last' = [ Quiet("playerHit") EXCEPT !.emitted = << { << "hull", hull - 1 >> } >> ]
       /\ IF hull - 1 <= 0
          THEN /\ queue' = queue \o GameOverOps
               /\ gameOvers' = gameOvers + 1
          ELSE UNCHANGED << queue, gameOvers >>
  /\ hud' = Heard(hud, last'.emitted)
  /\ UNCHANGED << camera, stage, page, sliders, gen, phase, delta, status, titleOnce, shield, discoveries,
                  shieldTimer, seed, sector, bullets, mark, timer, photo, bloom, pad,
                  gfx, shieldAge >>

\* hitEnemy destroying the enemy only once its hp is below 0
HitEnemyLate(b, e) ==
  /\ phase = "collide"
  /\ b \in 1..Len(bullets)
  /\ BagIn(e, enemies)
  /\ bullets' = RemoveAt(bullets, b)
  /\ mark' = MarkWithout(mark, b)
  /\ LET hp == e.hp - 1
     IN  IF hp < 0 THEN
           /\ discoveries < MaxDisc
           /\ enemies' = Destroy(enemies, e)
           /\ discoveries' = discoveries + 1
           /\ last' = [ Quiet("hitEnemy") EXCEPT
                          !.emitted = << { << "discoveries", discoveries + 1 >> } >>,
                          !.kills = 1,
                          !.fives = IF (discoveries + 1) % 5 = 0 THEN 1 ELSE 0 ]
         ELSE
           /\ enemies' = Destroy(enemies, e) (+) SetToBag({ [ e EXCEPT !.hp = hp ] })
           /\ UNCHANGED discoveries
           /\ last' = Quiet("hitEnemy")
  /\ hud' = Heard(hud, last'.emitted)
  /\ UNCHANGED << camera, stage, page, sliders, gen, phase, delta, status, queue, titleOnce, hull, shield,
                  shieldTimer, seed, sector, timer, photo, bloom, pad, gfx,
                  gameOvers, shieldAge >>

\* PlayScene.hitEnemy, the overlap callback of bullet b and enemy e
HitEnemy(b, e) ==
  /\ phase = "collide"
  /\ b \in 1..Len(bullets)
  /\ BagIn(e, enemies)
  /\ bullets' = RemoveAt(bullets, b)
  /\ mark' = MarkWithout(mark, b)
  /\ LET hp == e.hp - 1
     IN  IF hp <= 0 THEN
           /\ discoveries < MaxDisc
           /\ enemies' = Destroy(enemies, e)
           /\ discoveries' = discoveries + 1
           /\ last' = [ Quiet("hitEnemy") EXCEPT
                          !.emitted = << { << "discoveries", discoveries + 1 >> } >>,
                          !.kills = 1,
                          !.fives = IF (discoveries + 1) % 5 = 0 THEN 1 ELSE 0 ]
         ELSE
           /\ enemies' = Destroy(enemies, e) (+) SetToBag({ [ e EXCEPT !.hp = hp ] })
           /\ UNCHANGED discoveries
           /\ last' = Quiet("hitEnemy")
  /\ hud' = Heard(hud, last'.emitted)
  /\ UNCHANGED << camera, stage, page, sliders, gen, phase, delta, status, queue, titleOnce, hull, shield,
                  shieldTimer, seed, sector, timer, photo, bloom, pad, gfx,
                  gameOvers, shieldAge >>

\* The gamepad plugin's connected and disconnected handlers of create; a
\* pad is named by its index + 1, and 0 stands for null
PadConnected(p) ==
  /\ phase = "collide"
  /\ pad # p
  /\ pad' = p
  /\ last' = [ Quiet("padConnected") EXCEPT !.index = p ]
  /\ UNCHANGED << camera, stage, hud, page, sliders, gen, phase, delta, status, queue, titleOnce, hull, shield,
                  discoveries, shieldTimer, seed, sector, enemies, bullets, mark,
                  timer, photo, bloom, gfx, gameOvers, shieldAge >>

\* the disconnected handler without its comparison of the indices
PadDisconnectedAny(p) ==
  /\ phase = "collide"
  /\ pad # 0
  /\ pad' = 0
  /\ last' = [ Quiet("padDisconnected") EXCEPT !.index = p ]
  /\ UNCHANGED << camera, stage, hud, page, sliders, gen, phase, delta, status, queue,
                  titleOnce, hull, shield, discoveries, shieldTimer, seed,
                  sector, enemies, bullets, mark, timer, photo, bloom, gfx,
                  gameOvers, shieldAge >>

PadDisconnected(p) ==
  /\ phase = "collide"
  /\ pad # 0
  /\ pad' = IF p = pad THEN 0 ELSE pad
  /\ last' = [ Quiet("padDisconnected") EXCEPT !.index = p ]
  /\ UNCHANGED << camera, stage, hud, page, sliders, gen, phase, delta, status, queue, titleOnce, hull, shield,
                  discoveries, shieldTimer, seed, sector, enemies, bullets, mark,
                  timer, photo, bloom, gfx, gameOvers, shieldAge >>


(***************************************************************************)
(* The operations update calls.  Each takes and returns the record w of    *)
(* the fields update can change, with the events and counts of the frame.  *)
(***************************************************************************)
Emit(w, ev) == [ w EXCEPT !.emitted = Append(@, ev) ]
Step(w, name) == [ w EXCEPT !.steps = Append(@, name) ]

\* PlayScene.fire: the group has no maxSize, so get always yields a bullet
Fire(w, py) == Step([ w EXCEPT !.bullets = Append(@, py - 20) ], "fire")

\* jumpSector without its event
JumpSectorQuiet(w) ==
  LET s == NextSeed(w.seed)
  IN  [ w EXCEPT !.seed = s, !.sector = SectorFactory(s),
                 !.stage = LoadSector(@, SectorFactory(s)), !.jumps = @ + 1 ]

\* PlayScene.jumpSector
JumpSector(w) ==
  LET s == NextSeed(w.seed)
  IN  Emit([ w EXCEPT !.seed = s, !.sector = SectorFactory(s),
                      !.stage = LoadSector(@, SectorFactory(s)), !.jumps = @ + 1 ],
           { << "sector", s >> })

ScanRange == 150

\* this.planets: the group the last loadSector has made
ThisPlanets(w) == w.stage.planets[Len(w.stage.planets)]

\* The scan's notes of the frame: the sprites it has tested and how many of
\* them are at ScanRange or nearer
Tested(w, dist) ==
  [ Step(w, "scan") EXCEPT
      !.tested = @ \o ThisPlanets(w),
      !.within = @ + Cardinality({ i \in 1..Len(ThisPlanets(w)) : dist[i] <= ScanRange }) ]

\* scan counting a discovery for every planet in range
ScanPerPlanet(w, dist) ==
  LET close == { i \in 1..Len(ThisPlanets(w)) : dist[i] < ScanRange }
      n     == w.discoveries + Cardinality(close)
  IN  IF close # { } THEN
        Emit([ w EXCEPT !.discoveries = n, !.finds = @ + 1,
                        !.near = @ + Cardinality(close) ],
             { << "discoveries", n >> })
      ELSE w

\* scan reporting the count also when it has found nothing
ScanEmits(w, dist) ==
  LET close == { i \in 1..Len(ThisPlanets(w)) : dist[i] < ScanRange }
      n     == w.discoveries + (IF close # { } THEN 1 ELSE 0)
      w1    == Emit([ Tested(w, dist) EXCEPT !.discoveries = n,
                        !.finds = IF close # { } THEN @ + 1 ELSE @,
                        !.near = @ + Cardinality(close),
                        !.fives = IF close # { } /\ n % 5 = 0 THEN @ + 1 ELSE @ ],
                    { << "discoveries", n >> })
  IN  IF close # { } /\ n % 5 = 0 THEN JumpSector(w1) ELSE w1

\* PlayScene.scan with the player at distance dist[i] from planet i; the
\* planet and its ring are both children of this.planets, at one position
Scan(w, dist) ==
  LET close == { i \in 1..Len(ThisPlanets(w)) : dist[i] < ScanRange }
      found == close # { }
  IN  IF found THEN
        LET n  == w.discoveries + 1
            w1 == Emit([ Tested(w, dist) EXCEPT !.discoveries = n, !.finds = @ + 1,
                                  !.near = @ + Cardinality(close),
                                  !.fives = IF n % 5 = 0 THEN @ + 1 ELSE @ ],
                       { << "discoveries", n >> })
        IN  IF n % 5 = 0 THEN JumpSector(w1) ELSE w1
      ELSE Tested(w, dist)

\* shield starting its timer again at every trigger
ShieldRearm(w) == [ w EXCEPT !.shield = TRUE, !.shieldTimer = 0 ]

\* PlayScene.shield
Shield(w) ==
  IF w.shield THEN Step(w, "shield")
  ELSE Step([ w EXCEPT !.shield = TRUE, !.shieldTimer = 0 ], "shield")

\* togglePhoto raising the intensity at every toggle
TogglePhotoBright(w) ==
  Emit([ Step(w, "photo") EXCEPT !.photo = ~ @, !.bloom = 12 ],
       { << "photo", ~ w.photo >> })

\* togglePhoto without its event
TogglePhotoQuiet(w) ==
  Step([ w EXCEPT !.photo = ~ @, !.bloom = IF ~ w.photo THEN 12 ELSE 6 ], "photo")

\* PlayScene.togglePhoto
TogglePhoto(w) ==
  Emit([ Step(w, "photo") EXCEPT !.photo = ~ @, !.bloom = IF ~ w.photo THEN 12 ELSE 6 ],
       { << "photo", ~ w.photo >> })

\* pause of the wrong scene
PauseHud(w) == Step([ w EXCEPT !.queue = Append(@, Op("pause", "HUD")) ], "pause")

\* this.scene.pause()
Pause(w) == Step([ w EXCEPT !.queue = Append(@, Op("pause", "Play")) ], "pause")

CleanupY == -50

RECURSIVE Keep(_, _)
Keep(s, y) ==
  IF s = << >> THEN << >>
  ELSE IF Head(s) < y THEN Keep(Tail(s), y) ELSE << Head(s) >> \o Keep(Tail(s), y)

\* cleanup that lets the projectiles fly on
CleanupNever(w) == Step(w, "cleanup")

\* The bullets cleanup of update; the projectile followed, if it stays, has
\* before it those of the projectiles before it that stay
Cleanup(w) ==
  Step([ w EXCEPT !.bullets = Keep(@, CleanupY),
                  !.cleaned = Len(w.bullets) - Len(Keep(w.bullets, CleanupY)),
                  !.mark = IF @ = 0 \/ w.bullets[@] < CleanupY THEN 0
                           ELSE Len(Keep(SubSeq(w.bullets, 1, @), CleanupY)) ],
       "cleanup")

DefaultPeriod == 15000
BatchSize     == 3

\* spawn giving every type 2 hp
SpawnWeak(w, type) ==
  [ w EXCEPT !.enemies = @ (+) [ x \in { [ type |-> type, hp |-> 2 ] } |-> BatchSize ],
             !.spawns = @ + 1 ]

\* EncounterDirector.spawn with weightedPick's choice type
Spawn(w, type) ==
  LET e == [ type |-> type, hp |-> IF type = "tank" THEN 4 ELSE 2 ]
  IN  [ w EXCEPT !.enemies = @ (+) [ x \in { e } |-> BatchSize ],
                 !.spawns = @ + 1 ]

\* EncounterDirector.update
\* window.GFX.encounterPeriod with no fallback for 0
PeriodNoFallback ==
  IF "encounterPeriod" \in DOMAIN gfx THEN gfx.encounterPeriod ELSE DefaultPeriod

\* window.GFX.encounterPeriod || 15000: a field that is missing reads as
\* undefined, and undefined and 0 are the falsy values a period can take
Period ==
  IF "encounterPeriod" \in DOMAIN gfx /\ gfx.encounterPeriod # 0
  THEN gfx.encounterPeriod
  ELSE DefaultPeriod

\* update spawning once for every period that has elapsed
RECURSIVE SpawnTimes(_, _, _)
SpawnTimes(w, type, n) ==
  IF n = 0 THEN w
  ELSE SpawnTimes([ w EXCEPT !.enemies = @ (+) [ x \in { [ type |-> type, hp |-> 2 ] } |-> BatchSize ],
                             !.spawns = @ + 1 ], type, n - 1)

DirectorCatchUp(w, d, type) ==
  LET t == w.timer + d
  IN  IF t > Period
      THEN SpawnTimes([ w EXCEPT !.timer = t % Period, !.elapsed = t ], type, t \div Period)
      ELSE [ w EXCEPT !.timer = t, !.elapsed = t ]

\* update spawning as soon as the period is reached
DirectorAtPeriod(w, d, type) ==
  LET t == w.timer + d
  IN  IF t >= Period
      THEN [ w EXCEPT !.timer = 0, !.elapsed = t,
                      !.enemies = @ (+) [ x \in { [ type |-> type,
                                                   hp |-> IF type = "tank" THEN 4 ELSE 2 ] }
                                          |-> BatchSize ],
                      !.spawns = @ + 1 ]
      ELSE [ w EXCEPT !.timer = t, !.elapsed = t ]

DirectorUpdate(w, d, type) ==
  LET t == w.timer + d
  IN  IF t > Period
      THEN Spawn([ Step(w, "director") EXCEPT !.timer = 0, !.elapsed = t ], type)
      ELSE [ Step(w, "director") EXCEPT !.timer = t, !.elapsed = t ]

\* The fields update can change, as update finds them, and the frame's
\* events and counts, none yet
World ==
  [ bullets |-> bullets, discoveries |-> discoveries, seed |-> seed,
    sector |-> sector, shield |-> shield, shieldTimer |-> shieldTimer,
    photo |-> photo, bloom |-> bloom, queue |-> queue,
    enemies |-> enemies, timer |-> timer, stage |-> stage, mark |-> mark,
    emitted |-> << >>, near |-> 0, finds |-> 0, jumps |-> 0, fives |-> 0,
    spawns |-> 0, elapsed |-> 0, steps |-> << >>, within |-> 0,
    tested |-> << >>, cleaned |-> 0 ]

\* How many times a frame asks for the action of key k and pad button b
Asked(K, B, k, b) ==
  (IF k \in K THEN 1 ELSE 0) + (IF pad # 0 /\ b \in B THEN 1 ELSE 0)

\* update with the director first, then the cleanup, then the actions
UpdatedDirectorFirst(K, B, py, d1, d2, type) ==
  LET w0 == World
      c  == Cleanup(DirectorUpdate(w0, delta, type))
      p1 == IF pad # 0 /\ "fire" \in B THEN Fire(c, py) ELSE c
      p2 == IF pad # 0 /\ "shield" \in B THEN Shield(p1) ELSE p1
      p3 == IF pad # 0 /\ "scan" \in B THEN Scan(p2, d1) ELSE p2
      k1 == IF "SPACE" \in K THEN Fire(p3, py) ELSE p3
      k2 == IF "E" \in K THEN Scan(k1, d2) ELSE k1
      k3 == IF "SHIFT" \in K THEN Shield(k2) ELSE k2
      k4 == IF "O" \in K THEN TogglePhoto(k3) ELSE k3
  IN  IF "ESC" \in K THEN Pause(k4) ELSE k4

\* The body of PlayScene.update: the gamepad's actions, the keyboard's, the
\* cleanup, the director, in the order of the code.  K: keys just pressed,
\* B: pad buttons held, py: the player's y, d1, d2: the player's distances
\* to the planets at the two scans, type: what weightedPick returns
Updated(K, B, py, d1, d2, type) ==
  LET w0 == World
      p1 == IF pad # 0 /\ "fire" \in B THEN Fire(w0, py) ELSE w0
      p2 == IF pad # 0 /\ "shield" \in B THEN Shield(p1) ELSE p1
      p3 == IF pad # 0 /\ "scan" \in B THEN Scan(p2, d1) ELSE p2
      k1 == IF "SPACE" \in K THEN Fire(p3, py) ELSE p3
      k2 == IF "E" \in K THEN Scan(k1, d2) ELSE k1
      k3 == IF "SHIFT" \in K THEN Shield(k2) ELSE k2
      k4 == IF "O" \in K THEN TogglePhoto(k3) ELSE k3
      k5 == IF "ESC" \in K THEN Pause(k4) ELSE k4
  IN  DirectorUpdate(Cleanup(k5), delta, type)

Speed == 200

\* The velocity update sets: from the direction keys D, left before right
\* and up before down, and from the pad's axes ax (in tenths) when this.pad
\* is set
Velocity(D, ax) ==
  IF pad # 0 THEN << (ax[1] * Speed) \div 10, (ax[2] * Speed) \div 10 >>
  ELSE << IF "left" \in D THEN 0 - Speed ELSE IF "right" \in D THEN Speed ELSE 0,
          IF "up" \in D THEN 0 - Speed ELSE IF "down" \in D THEN Speed ELSE 0 >>

\* PlayScene.update, the last step of the Play scene's frame, with the
\* direction keys D down and the pad's sticks at ax
RunUpdateMoving(K, B, py, d1, d2, type, D, ax) ==
  /\ phase = "collide"
  /\ \E w \in { Updated(K, B, py, d1, d2, type) } :
         /\ bullets' = w.bullets /\ mark' = w.mark /\ discoveries' = w.discoveries
         /\ seed' = w.seed /\ sector' = w.sector
         /\ shield' = w.shield /\ shieldTimer' = w.shieldTimer
         /\ photo' = w.photo /\ bloom' = w.bloom
         /\ queue' = w.queue
         /\ enemies' = w.enemies /\ timer' = w.timer
         /\ stage' = w.stage
         /\ hud' = Heard(hud, w.emitted)
         /\ shieldAge' = IF w.shield /\ ~ shield THEN 0 ELSE shieldAge
         /\ last' = [ op |-> "update", keys |-> K \cup (IF pad # 0 THEN B ELSE { }),
                      emitted |-> w.emitted, near |-> w.near, finds |-> w.finds,
                      kills |-> 0, jumps |-> w.jumps, fives |-> w.fives,
                      spawns |-> w.spawns, elapsed |-> w.elapsed, creates |-> 0,
                      steps |-> w.steps, index |-> 0,
                      within |-> w.within, tested |-> w.tested,
                      cleaned |-> w.cleaned,
                      move |-> [ dirs |-> D, buttons |-> B, axes |-> ax,
                                 vel |-> Velocity(D, ax) ] ]
  /\ phase' = "manager"
  /\ delta' = 0
  /\ UNCHANGED << status, titleOnce, hull, pad, gfx, gameOvers, gen, page, sliders,
                  camera >>

\* update with no direction key down and the sticks at rest
RunUpdate(K, B, py, d1, d2, type) ==
  RunUpdateMoving(K, B, py, d1, d2, type, { }, << 0, 0 >>)

\* update in the frames the bounds of the model admit
Update(K, B, py, d1, d2, type) ==
  /\ Len(bullets) + Asked(K, B, "SPACE", "fire") <= MaxBullets
  /\ discoveries + Asked(K, B, "E", "scan") <= MaxDisc
  /\ timer + delta > Period => BagCardinality(enemies) + BatchSize <= MaxEnemies
  /\ RunUpdate(K, B, py, d1, d2, type)

(***************************************************************************)
(* The inputs of a frame, each drawn only where the frame reads it.        *)
(***************************************************************************)
Frame(Ks, Bs) ==
  \E K \in Ks, B \in Bs :
    \E py \in (IF "SPACE" \in K \/ (pad # 0 /\ "fire" \in B) THEN PlayerYs ELSE { 0 }) :
      \E d1 \in (IF pad # 0 /\ "scan" \in B THEN DistVecs ELSE { << 0, 0 >> }) :
        \E d2 \in (IF "E" \in K THEN DistVecs ELSE { << 0, 0 >> }) :
          \E type \in (IF timer + delta > Period THEN Types ELSE { "scout" }) :
            Update(K, B, py, d1, d2, type)

TitleStep ==
  \E n \in 1..MaxStarts : \E srcs \in [ 1..n -> TitleSrcs ] : TitleInput(srcs)

ManagerStep(Ds) == \E d \in Ds, s \in Seeds : SceneManagerUpdate(d, s)

Collision ==
  \/ \E e \in BagToSet(enemies) : PlayerHit(e)
  \/ \E b \in 1..Len(bullets), e \in BagToSet(enemies) : HitEnemy(b, e)

PadEvent == \E p \in Pads : PadConnected(p) \/ PadDisconnected(p)

\* The session played on the keyboard, in frames of half a period and more
Next ==
  \/ ManagerStep(Deltas)
  \/ TitleStep
  \/ ClockUpdate
  \/ WorldStep
  \/ Collision
  \/ Frame(Single(Keys), { { } })

Spec == Init /\ [][Next]_vars


(***************************************************************************)
(* The shield's window: frames of 100 and 200 ms, the shield key, enemies  *)
(* touching the player, and the encounter period tuned down to 400 ms      *)
(* through window.GFX before the launch.                                   *)
(***************************************************************************)
TunedPeriod == 400

InitShield == InitWith(TunedPeriod)

NextShield ==
  \/ ManagerStep(FineDeltas)
  \/ TitleStep
  \/ ClockUpdate
  \/ WorldStep
  \/ \E e \in BagToSet(enemies) : PlayerHit(e)
  \/ Frame(Single({ "SHIFT" }), { { } })

SpecShield == InitShield /\ [][NextShield]_vars


(***************************************************************************)
(* The jumps of a session: the state just after create, for the first      *)
(* seeds Date.now() & 0xffff can give, and frames of 16 ms in which the    *)
(* player scans next to a planet.                                          *)
(***************************************************************************)
FrameMs == 16

InitJump ==
  /\ phase = "collide"
  /\ delta = 0
  /\ status = [ k \in Scenes |-> IF k = "Title" THEN "stopped" ELSE "running" ]
  /\ queue = << >>
  /\ titleOnce = { }
  /\ hull = 3 /\ shield = FALSE /\ discoveries = 0
  /\ shieldTimer = -1
  /\ seed \in FirstSeeds /\ sector = SectorFactory(seed)
  /\ enemies = EmptyBag /\ bullets = << >> /\ mark = 0
  /\ timer = 0
  /\ photo = FALSE /\ bloom = 6
  /\ pad = 0
  /\ gfx = [ bloom |-> TRUE, vignette |-> TRUE, particles |-> 10,
             encounterPeriod |-> DefaultPeriod ]
  /\ gameOvers = 0
  /\ shieldAge = 0
  /\ gen = GenIdle
  /\ camera = Stages(gfx)
  /\ stage = LoadSector(NoStage, sector)
  /\ hud = [ HudAtLoad EXCEPT !.listening = TRUE ]
  /\ page = PageAtLoad
  /\ sliders = NoSliders
  /\ last = [ Quiet("create") EXCEPT !.emitted = << CreateEvent(sector) >>,
                                     !.creates = 1 ]

ScanFrame ==
  /\ discoveries < 5 * MaxJumps
  /\ RunUpdate({ "E" }, { }, 0, << 0, 0 >>, << 100, 100 >>, "scout")

NextJump ==
  \/ ManagerStep({ FrameMs })
  \/ ClockUpdate
  \/ WorldStep
  \/ ScanFrame

SpecJump == InitJump /\ [][NextJump]_vars

(***************************************************************************)
(* Firing: the first frames of 16 ms of a session in which the player may  *)
(* press SPACE in every frame, on the screen or above its top edge.        *)
(***************************************************************************)
FireFrame ==
  /\ timer < FrameMs * MaxFrames
  /\ \E K \in Single({ "SPACE" }) : \E py \in PlayerYs :
       RunUpdate(K, { }, py, << 0, 0 >>, << 0, 0 >>, "scout")

NextFire ==
  \/ ManagerStep({ FrameMs })
  \/ ClockUpdate
  \/ WorldStep
  \/ FireFrame

SpecFire == InitJump /\ [][NextFire]_vars

(***************************************************************************)
(* A session left alone: frames just longer than the encounter period, no  *)
(* key pressed, the player out of the enemies' way.                        *)
(***************************************************************************)
IdleFrame ==
  /\ BagCardinality(enemies) < BatchSize * MaxBatches
  /\ \E type \in Types :
       RunUpdate({ }, { }, 0, << 0, 0 >>, << 0, 0 >>, type)

NextIdle ==
  \/ ManagerStep({ 15001 })
  \/ ClockUpdate
  \/ WorldStep
  \/ IdleFrame

SpecIdle == InitJump /\ [][NextIdle]_vars

(***************************************************************************)
(* The configuration tuned from the console while a session is played:     *)
(* window.GFX is set between two frames; the player scans next to a planet *)
(* or leaves the keys alone.                                               *)
(***************************************************************************)
GfxValues == [ bloom : BOOLEAN, vignette : BOOLEAN, particles : { 5, 10 },
               encounterPeriod : { 7000, 15000 } ]

\* An assignment to window.GFX or to a field of it, between two frames
SetGfx(g) ==
  /\ phase = "manager"
  /\ status["Play"] = "running"
  /\ g # gfx
  /\ gfx' = g
  /\ last' = Quiet("setGfx")
  /\ UNCHANGED << phase, delta, status, queue, titleOnce, gen, page, sliders >>
  /\ UNCHANGED playVars

NextGfx ==
  \/ ManagerStep({ 7500 })
  \/ ClockUpdate
  \/ WorldStep
  \/ \E e \in BagToSet(enemies) : PlayerHit(e)
  \/ Frame({ { }, { "E" } }, { { } })
  \/ \E g \in GfxValues : SetGfx(g)

SpecGfx == InitJump /\ [][NextGfx]_vars

(***************************************************************************)
(* A gamepad plugged in and out while a session is played: frames of 16 ms *)
(* with direction keys, the photo key, the sticks and the shield button.   *)
(***************************************************************************)
DirKeys == { { }, { "left" }, { "right", "down" } }
Sticks  == { << 0, 0 >>, << 10, -5 >> }

PadFrame ==
  /\ timer < FrameMs * MaxFrames
  /\ \E K \in Single({ "O" }), B \in Single({ "shield" }), D \in DirKeys, ax \in Sticks :
       RunUpdateMoving(K, B, 0, << 0, 0 >>, << 0, 0 >>, "scout", D, ax)

NextPad ==
  \/ ManagerStep({ FrameMs })
  \/ ClockUpdate
  \/ WorldStep
  \/ PadEvent
  \/ PadFrame

SpecPad == InitJump /\ [][NextPad]_vars

(***************************************************************************)
(* The portfolio page: script.js's particles background, the browser's     *)
(* animation frames and the resizes of the window.                         *)
(***************************************************************************)
ParticleCount == 50

\* initParticlesBackground without the check for an existing canvas
ParticlesUnguarded(pg) ==
  [ pg EXCEPT !.calls = @ + 1,
              !.canvases = @ + 1,
              !.resizers = @ + 1,
              !.width = pg.win[1], !.height = pg.win[2],
              !.particles = @ + ParticleCount,
              !.frames = @ + 1,
              !.loops = @ + 1 ]

\* initParticlesBackground() on the page pg: returns if the canvas is
\* there; else appends the canvas, adds the resize listener, sizes the
\* canvas, creates the particles and draws them once, which requests the
\* next animation frame
Particles(pg) ==
  IF pg.canvases > 0 THEN [ pg EXCEPT !.calls = @ + 1 ]
  ELSE [ pg EXCEPT !.calls = @ + 1,
                   !.canvases = @ + 1,
                   !.resizers = @ + 1,
                   !.width = pg.win[1], !.height = pg.win[2],
                   !.particles = @ + ParticleCount,
                   !.frames = @ + 1,
                   !.loops = @ + 1 ]

\* A call of window.initParticlesBackground() by the page or a test
InitParticlesBackground ==
  /\ page.calls < MaxInits
  /\ page' = Particles(page)
  /\ UNCHANGED << phase, delta, status, queue, titleOnce, gfx, gen, sliders, last >>
  /\ UNCHANGED playVars

\* The DOMContentLoaded listener: the particles background, the timeout
\* for the project cards, then the components, if not yet initialized
DomContentLoaded ==
  /\ ~ page.loaded
  /\ page.calls < MaxInits
  /\ page' = [ Particles(page) EXCEPT !.loaded = TRUE, !.showTimer = TRUE,
                                       !.components = TRUE ]
  /\ UNCHANGED << phase, delta, status, queue, titleOnce, gfx, gen, sliders, last >>
  /\ UNCHANGED playVars

\* An animation frame: every requested drawParticles runs and requests the
\* next frame
AnimationFrame ==
  /\ page.loops > 0
  /\ page.frames < MaxDraws
  /\ page' = [ page EXCEPT !.frames = @ + page.loops ]
  /\ UNCHANGED << phase, delta, status, queue, titleOnce, gfx, gen, sliders, last >>
  /\ UNCHANGED playVars

\* The window is resized to size: each resizeCanvas listener sets the
\* canvas to the window's inner size
Resize(size) ==
  /\ size # page.win
  /\ page' = [ page EXCEPT !.win = size,
                           !.width = IF page.resizers > 0 THEN size[1] ELSE @,
                           !.height = IF page.resizers > 0 THEN size[2] ELSE @ ]
  /\ UNCHANGED << phase, delta, status, queue, titleOnce, gfx, gen, sliders, last >>
  /\ UNCHANGED playVars

NextPage ==
  \/ InitParticlesBackground
  \/ DomContentLoaded
  \/ AnimationFrame
  \/ \E size \in WinSizes : Resize(size)

SpecPage == Init /\ [][NextPage]_vars

(***************************************************************************)
(* Shooting at the enemies: frames of 100 ms, the fire key, the bullets    *)
(* meeting enemies, the player out of their way, the encounter period      *)
(* tuned down to 400 ms through window.GFX before the launch.              *)
(***************************************************************************)
NextHit ==
  \/ ManagerStep({ 100 })
  \/ TitleStep
  \/ ClockUpdate
  \/ WorldStep
  \/ \E b \in 1..Len(bullets), e \in BagToSet(enemies) : HitEnemy(b, e)
  \/ Frame(Single({ "SPACE" }), { { } })

SpecHit == InitShield /\ [][NextHit]_vars

(***************************************************************************)
(* The director's choice of the type.  A session left alone in which the   *)
(* draws of Phaser.Math.RND.frac() are the PickGrid points k / PickGrid of *)
(* [0, 1), in order: spawn k takes draw k.  weightedPick(array) returns    *)
(* array[~~(frac^2 * m + 0.5)], where m is array.length - 1 or             *)
(* array.length - 0.5 by the version of the library; it is given the three *)
(* names and no weight.                                                    *)
(***************************************************************************)
PickGrid == 100

\* sector.encounterWeights, in tenths
EncounterWeights == [ scout |-> 7, tank |-> 2, pulsar |-> 1 ]

\* The array spawn hands to weightedPick
PickArray == << "scout", "tank", "pulsar" >>

\* m of weightedPick, in tenths, for an array of n entries
PickSpans(n) == { 10 * (n - 1), 10 * n - 5 }

\* weightedPick(array) at the draw k / PickGrid with m = span / 10
WeightedPick(array, k, span) ==
  array[ 1 + (2 * k * k * span + 10 * PickGrid * PickGrid)
               \div (20 * PickGrid * PickGrid) ]

PickFrame ==
  /\ BagCardinality(enemies) < BatchSize * PickGrid
  /\ \E span \in PickSpans(Len(PickArray)) :
       RunUpdate({ }, { }, 0, << 0, 0 >>, << 0, 0 >>,
                 WeightedPick(PickArray, BagCardinality(enemies) \div BatchSize, span))

NextPick ==
  \/ ManagerStep({ 15001 })
  \/ ClockUpdate
  \/ WorldStep
  \/ PickFrame

SpecPick == InitJump /\ [][NextPick]_vars

(***************************************************************************)
(* Projectiles in flight: frames of FlyMs, in which a projectile rises 150 *)
(* units, the player on the screen or above it, the fire key, the period   *)
(* of the encounters tuned down to FlyPeriod before the launch, scouts     *)
(* meeting the player and the projectiles, session after session.  An      *)
(* observer picks a projectile of this.bullets and follows it to its end.  *)
(***************************************************************************)
FlyMs     == 500
FlyPeriod == 1400

InitFly == InitWith(FlyPeriod)

FlyFrame ==
  \E K \in Single({ "SPACE" }) :
    \E py \in (IF "SPACE" \in K THEN PlayerYs ELSE { 0 }) :
      Update(K, { }, py, << 0, 0 >>, << 0, 0 >>, "scout")

Track(i) ==
  /\ phase = "manager" /\ last.op = "update"
  /\ mark = 0 /\ i \in 1..Len(bullets)
  /\ mark' = i
  /\ UNCHANGED << phase, delta, status, queue, titleOnce, hull, shield,
                  discoveries, shieldTimer, seed, sector, enemies, bullets,
                  timer, photo, bloom, pad, gfx, gameOvers, shieldAge, gen,
                  camera, stage, hud, page, sliders, last >>

NextFly ==
  \/ ManagerStep({ FlyMs })
  \/ TitleStep
  \/ ClockUpdate
  \/ WorldStep
  \/ Collision
  \/ FlyFrame
  \/ \E i \in 1..MaxBullets : Track(i)

SpecFly == InitFly /\ [][NextFly]_vars

(***************************************************************************)
(* Keyboard and gamepad together: the first frames of 16 ms of a session,  *)
(* in which one of the keys SPACE, E, SHIFT may be just down and one of    *)
(* the pad's buttons 0, 2, 4 pressed, a planet in range, a gamepad plugged *)
(* in and out.                                                             *)
(***************************************************************************)
BothFrames  == 3
BothKeys    == Single({ "SPACE", "E", "SHIFT" })
BothButtons == Single({ "fire", "scan", "shield" })

BothFrame ==
  /\ timer < FrameMs * BothFrames
  /\ \E K \in BothKeys, B \in BothButtons :
       RunUpdate(K, B, 500, << 100, 100 >>, << 100, 100 >>, "scout")

NextBoth ==
  \/ ManagerStep({ FrameMs })
  \/ ClockUpdate
  \/ WorldStep
  \/ PadEvent
  \/ BothFrame

SpecBoth == InitJump /\ [][NextBoth]_vars

(***************************************************************************)
(* The paused session: frames of 7500 ms with the fire key or ESC, enemies *)
(* meeting the player, and, once the Play scene is paused, keys, pointer   *)
(* clicks and gamepad events that go on arriving.                          *)
(***************************************************************************)
InputSrcs == Keys \cup { "pointer", "pad" }

\* an input to the paused game that brings the Title scene back
PausedInputToTitle(src) ==
  /\ phase = "manager" /\ status["Play"] = "paused"
  /\ queue' = IF src = "pointer" THEN queue \o << Op("stop", "Play"), Op("start", "Title") >>
              ELSE queue
  /\ pad' = pad
  /\ last' = [ Quiet("input") EXCEPT !.keys = { src } ]
  /\ UNCHANGED << phase, delta, status, titleOnce, hull, shield, discoveries,
                  shieldTimer, seed, sector, enemies, bullets, mark, timer,
                  photo, bloom, gfx, gameOvers, shieldAge, gen, camera, stage,
                  hud, page, sliders >>

\* An input while the Play scene is paused.  The Title scene is stopped and
\* its handlers went with its shutdown; the HUD scene has none; the Play
\* scene reads its keys in update, which a paused scene does not run; its
\* gamepad handlers, if the event reaches them, set this.pad.
PausedInput(src) ==
  /\ phase = "manager" /\ status["Play"] = "paused"
  /\ queue' = queue
  /\ pad' \in (IF src = "pad" THEN { pad } \cup Pads \cup { 0 } ELSE { pad })
  /\ last' = [ Quiet("input") EXCEPT !.keys = { src } ]
  /\ UNCHANGED << phase, delta, status, titleOnce, hull, shield, discoveries,
                  shieldTimer, seed, sector, enemies, bullets, mark, timer,
                  photo, bloom, gfx, gameOvers, shieldAge, gen, camera, stage,
                  hud, page, sliders >>

NextPause ==
  \/ ManagerStep({ 7500 })
  \/ TitleStep
  \/ ClockUpdate
  \/ WorldStep
  \/ \E e \in BagToSet(enemies) : PlayerHit(e)
  \/ Frame(Single({ "ESC", "SPACE" }), { { } })
  \/ \E src \in InputSrcs : PausedInput(src)

SpecPause == Init /\ [][NextPause]_vars

(***************************************************************************)
(* The period of the encounters tuned from the console while a session is  *)
(* left idle: window.GFX.encounterPeriod is assigned 0 or a positive       *)
(* number, or deleted, between two frames of 7500 ms.                      *)
(***************************************************************************)
PeriodValues == { 0, 5000, 15000 }

\* window.GFX.encounterPeriod = p
SetPeriod(p) ==
  /\ phase = "manager"
  /\ status["Play"] = "running"
  /\ "encounterPeriod" \in DOMAIN gfx
  /\ gfx.encounterPeriod # p
  /\ gfx' = [ gfx EXCEPT !.encounterPeriod = p ]
  /\ last' = Quiet("setGfx")
  /\ UNCHANGED << phase, delta, status, queue, titleOnce, gen, page, sliders >>
  /\ UNCHANGED playVars

\* window.GFX.encounterPeriod = p, on a configuration without the field
RestorePeriod(p) ==
  /\ phase = "manager"
  /\ status["Play"] = "running"
  /\ "encounterPeriod" \notin DOMAIN gfx
  /\ gfx' = [ f \in DOMAIN gfx \cup { "encounterPeriod" } |->
               IF f = "encounterPeriod" THEN p ELSE gfx[f] ]
  /\ last' = Quiet("setGfx")
  /\ UNCHANGED << phase, delta, status, queue, titleOnce, gen, page, sliders >>
  /\ UNCHANGED playVars

\* delete window.GFX.encounterPeriod
DeletePeriod ==
  /\ phase = "manager"
  /\ status["Play"] = "running"
  /\ "encounterPeriod" \in DOMAIN gfx
  /\ gfx' = [ f \in DOMAIN gfx \ { "encounterPeriod" } |-> gfx[f] ]
  /\ last' = Quiet("setGfx")
  /\ UNCHANGED << phase, delta, status, queue, titleOnce, gen, page, sliders >>
  /\ UNCHANGED playVars

NextPeriod ==
  \/ ManagerStep({ 7500 })
  \/ ClockUpdate
  \/ WorldStep
  \/ IdleFrame
  \/ \E p \in PeriodValues : SetPeriod(p)
  \/ \E p \in PeriodValues : RestorePeriod(p)
  \/ DeletePeriod

SpecPeriod == InitJump /\ [][NextPeriod]_vars

(***************************************************************************)
(* The gallery page: gallery.js's sliders.  An image is kept as the pair   *)
(* of its gallery and its place in the gallery's array, from 0; the four   *)
(* arrays hold distinct paths.  The markup of the page is not part of the  *)
(* script: which sliders it holds and the src each img starts with are     *)
(* the page's choice.                                                      *)
(***************************************************************************)
\* galleries: the number of paths of each array
Galleries == [ lic |-> 3, massoorie |-> 11, tirupati |-> 3, cherished |-> 12 ]

\* galleries[galleryName]
Images(g) == [ k \in 1..Galleries[g] |-> << g, k - 1 >> ]

\* images[i]: undefined out of the array
ImageAt(images, i) ==
  IF i \in 0..(Len(images) - 1) THEN images[i + 1] ELSE << "undefined", 0 >>

\* a % n of JavaScript: the remainder has the sign of a
JsRem(a, n) == IF a >= 0 THEN a % n ELSE 0 - ((0 - a) % n)

\* (index - 1) % images.length
PrevIndexNoWrap(index, n) == JsRem(index - 1, n)

\* (index - 1 + images.length) % images.length
PrevIndex(index, n) == JsRem(index - 1 + n, n)

\* (index + 1) % images.length
NextIndex(index, n) == JsRem(index + 1, n)

\* The data-gallery attributes of the sliders of a page
SliderPages == { << "lic", "lic" >>, << "tirupati", "massoorie" >>,
                 << "cherished" >> }

\* A .slider element as parsed.  index: the let of the closure; src: the
\* img's src; clicked: a handler has set src; trail: the last two clicks
\* with the index before each; run: the next clicks in a row, counted up to
\* images.length, and from: the index before the first of them
SliderAtLoad(g, src) ==
  [ gallery |-> g, index |-> 0, src |-> src, clicked |-> FALSE,
    trail |-> << >>, run |-> 0, from |-> 0 ]

\* The page's markup is parsed: the sliders are in the document, each img
\* with the first path of its gallery or with a placeholder as its src
ParseGallery(p) ==
  /\ sliders = NoSliders
  /\ \E first \in [ 1..Len(p) -> BOOLEAN ] :
       sliders' = [ loaded |-> FALSE,
                    of |-> [ s \in 1..Len(p) |->
                               SliderAtLoad(p[s], IF first[s]
                                                  THEN << p[s], 0 >>
                                                  ELSE << "markup", 0 >>) ] ]
  /\ UNCHANGED << phase, delta, status, queue, titleOnce, gfx, gen, page, last >>
  /\ UNCHANGED playVars

\* The DOMContentLoaded listener of gallery.js: every slider gets its
\* images, its index at 0 and its two click listeners
GalleryLoaded ==
  /\ ~ sliders.loaded
  /\ Len(sliders.of) > 0
  /\ sliders' = [ sliders EXCEPT !.loaded = TRUE ]
  /\ UNCHANGED << phase, delta, status, queue, titleOnce, gfx, gen, page, last >>
  /\ UNCHANGED playVars

Last2(t) == IF Len(t) > 2 THEN SubSeq(t, Len(t) - 1, Len(t)) ELSE t

\* The slider sl after a click that takes its index to i
Clicked(sl, op, i) ==
  [ sl EXCEPT !.index = i,
              !.src = ImageAt(Images(sl.gallery), i),
              !.clicked = TRUE,
              !.trail = Last2(Append(@, [ op |-> op, index |-> sl.index ])),
              !.run = IF op = "prev" THEN 0
                      ELSE IF @ = Galleries[sl.gallery] THEN 1 ELSE @ + 1,
              !.from = IF op = "prev" THEN 0
                       ELSE IF sl.run \in { 0, Galleries[sl.gallery] }
                            THEN sl.index ELSE @ ]

\* A click on the .prev of slider s
PrevClick(s) ==
  /\ sliders.loaded
  /\ sliders' = [ sliders EXCEPT !.of[s] =
                    Clicked(@, "prev", PrevIndex(@.index, Len(Images(@.gallery)))) ]
  /\ UNCHANGED << phase, delta, status, queue, titleOnce, gfx, gen, page, last >>
  /\ UNCHANGED playVars

\* A click on the .next of slider s
NextClick(s) ==
  /\ sliders.loaded
  /\ sliders' = [ sliders EXCEPT !.of[s] =
                    Clicked(@, "next", NextIndex(@.index, Len(Images(@.gallery)))) ]
  /\ UNCHANGED << phase, delta, status, queue, titleOnce, gfx, gen, page, last >>
  /\ UNCHANGED playVars

NextSlider ==
  \/ \E p \in SliderPages : ParseGallery(p)
  \/ GalleryLoaded
  \/ \E s \in 1..Len(sliders.of) : PrevClick(s)
  \/ \E s \in 1..Len(sliders.of) : NextClick(s)

SpecSlider == Init /\ [][NextSlider]_vars

(***************************************************************************)
(* SectorFactory, statement by statement.  A double rand() * m + c is kept *)
(* as its terms: the numerator w of rand() over 2^32, and m and c in       *)
(* tenths.  Phaser.Display.Color.RandomRGB() draws from Math.random, not   *)
(* from the seeded stream: its colour is a choice of the environment.      *)
(***************************************************************************)
Lin(w, m, c) == [ w |-> w, m |-> m, c |-> c ]

\* SectorFactory(S) is called: rand = mulberry32(S) and the empty sector
GenCall(S) ==
  /\ gen.pc = "idle"
  /\ Len(gen.results) < MaxCalls
  /\ gen.results # << >> => S = gen.seed
  /\ gen' = [ gen EXCEPT !.pc = "stars", !.seed = S, !.a = ToWord(S), !.l = 0,
                         !.layer = << >>, !.left = 0,
                         !.sector = [ name |-> S, stars |-> << >>, planets |-> << >>,
                                      galaxies |-> << >>, nebulae |-> << >> ] ]
  /\ UNCHANGED << phase, delta, status, queue, titleOnce, gfx, page, sliders, last >>
  /\ UNCHANGED playVars

\* One pass of the inner star loop: a star is pushed to the layer
GenStar ==
  /\ gen.pc = "stars"
  /\ gen.l < StarLayers
  /\ Len(gen.layer) < StarsPerLayer
  /\ \E a1 \in { Advance(gen.a) } : \E a2 \in { Advance(a1) } :
       gen' = [ gen EXCEPT !.a = a2,
                           !.layer = Append(@, [ x |-> Lin(Output(a1), 20000, -10000),
                                                 y |-> Lin(Output(a2), 20000, -10000),
                                                 depth |-> 2 + (gen.l * 3) ]) ]
  /\ UNCHANGED << phase, delta, status, queue, titleOnce, gfx, page, sliders, last >>
  /\ UNCHANGED playVars

\* The end of a pass of the outer star loop: the layer is pushed
GenLayer ==
  /\ gen.pc = "stars"
  /\ gen.l < StarLayers
  /\ Len(gen.layer) = StarsPerLayer
  /\ gen' = [ gen EXCEPT !.l = @ + 1, !.layer = << >>,
                         !.sector.stars = Append(@, gen.layer) ]
  /\ UNCHANGED << phase, delta, status, queue, titleOnce, gfx, page, sliders, last >>
  /\ UNCHANGED playVars

\* planetCount = 1 + Math.floor(rand() * 2)
GenPlanetCount ==
  /\ gen.pc = "stars"
  /\ gen.l = StarLayers
  /\ \E a1 \in { Advance(gen.a) } :
       gen' = [ gen EXCEPT !.pc = "planets", !.a = a1,
                           !.left = 1 + Floor2(Output(a1)) ]
  /\ UNCHANGED << phase, delta, status, queue, titleOnce, gfx, page, sliders, last >>
  /\ UNCHANGED playVars

\* One pass of the planet loop; tint is what RandomRGB() returns
GenPlanet(tint) ==
  /\ gen.pc = "planets"
  /\ gen.left > 0
  /\ \E a1 \in { Advance(gen.a) } : \E a2 \in { Advance(a1) } :
     \E a3 \in { Advance(a2) } :
       gen' = [ gen EXCEPT !.a = a3, !.left = @ - 1,
                           !.sector.planets =
                              Append(@, [ x |-> Lin(Output(a1), 16000, -8000),
                                          y |-> Lin(Output(a2), 12000, -6000),
                                          scale |-> Lin(Output(a3), 10, 5),
                                          tint |-> tint ]) ]
  /\ UNCHANGED << phase, delta, status, queue, titleOnce, gfx, page, sliders, last >>
  /\ UNCHANGED playVars

\* galaxyCount = Math.floor(rand() * 2)
GenGalaxyCount ==
  /\ gen.pc = "planets"
  /\ gen.left = 0
  /\ \E a1 \in { Advance(gen.a) } :
       gen' = [ gen EXCEPT !.pc = "galaxies", !.a = a1,
                           !.left = Floor2(Output(a1)) ]
  /\ UNCHANGED << phase, delta, status, queue, titleOnce, gfx, page, sliders, last >>
  /\ UNCHANGED playVars

\* One pass of the galaxy loop
GenGalaxy ==
  /\ gen.pc = "galaxies"
  /\ gen.left > 0
  /\ \E a1 \in { Advance(gen.a) } : \E a2 \in { Advance(a1) } :
     \E a3 \in { Advance(a2) } : \E a4 \in { Advance(a3) } :
       gen' = [ gen EXCEPT !.a = a4, !.left = @ - 1,
                           !.sector.galaxies =
                              Append(@, [ x |-> Lin(Output(a1), 18000, -9000),
                                          y |-> Lin(Output(a2), 14000, -7000),
                                          scale |-> Lin(Output(a3), 5, 6),
                                          rot |-> Lin(Output(a4), 3600, 0) ]) ]
  /\ UNCHANGED << phase, delta, status, queue, titleOnce, gfx, page, sliders, last >>
  /\ UNCHANGED playVars

\* nebulaCount = 1 + Math.floor(rand() * 2)
GenNebulaCount ==
  /\ gen.pc = "galaxies"
  /\ gen.left = 0
  /\ \E a1 \in { Advance(gen.a) } :
       gen' = [ gen EXCEPT !.pc = "nebulae", !.a = a1,
                           !.left = 1 + Floor2(Output(a1)) ]
  /\ UNCHANGED << phase, delta, status, queue, titleOnce, gfx, page, sliders, last >>
  /\ UNCHANGED playVars

\* One pass of the nebula loop; color is what RandomRGB() returns
GenNebula(color) ==
  /\ gen.pc = "nebulae"
  /\ gen.left > 0
  /\ \E a1 \in { Advance(gen.a) } : \E a2 \in { Advance(a1) } :
     \E a3 \in { Advance(a2) } :
       gen' = [ gen EXCEPT !.a = a3, !.left = @ - 1,
                           !.sector.nebulae =
                              Append(@, [ x |-> Lin(Output(a1), 16000, -8000),
                                          y |-> Lin(Output(a2), 12000, -6000),
                                          color |-> color,
                                          alpha |-> Lin(Output(a3), 3, 2) ]) ]
  /\ UNCHANGED << phase, delta, status, queue, titleOnce, gfx, page, sliders, last >>
  /\ UNCHANGED playVars

\* return sector
GenReturn ==
  /\ gen.pc = "nebulae"
  /\ gen.left = 0
  /\ gen' = [ gen EXCEPT !.pc = "idle", !.results = Append(@, gen.sector),
                         !.sector = << >> ]
  /\ UNCHANGED << phase, delta, status, queue, titleOnce, gfx, page, sliders, last >>
  /\ UNCHANGED playVars

NextGen ==
  \/ \E S \in GenSeeds : GenCall(S)
  \/ GenStar
  \/ GenLayer
  \/ GenPlanetCount
  \/ \E tint \in Tints : GenPlanet(tint)
  \/ GenGalaxyCount
  \/ GenGalaxy
  \/ GenNebulaCount
  \/ \E color \in Tints : GenNebula(color)
  \/ GenReturn

SpecGen == Init /\ [][NextGen]_vars

(***************************************************************************)
(* The properties.                                                         *)
(***************************************************************************)
InSession == status["Play"] # "stopped"
Live      == BagCardinality(enemies)
Batch(t)  == [ x \in { [ type |-> t, hp |-> IF t = "tank" THEN 4 ELSE 2 ] } |-> 3 ]

\* C1: in every state of a play session the player's hull is >= 0, also
\* when several enemies overlap the unshielded player in one physics step.
HullFloor == InSession => hull >= 0

\* C2: within one play session gameOver runs at most once: no later overlap
\* of the session triggers it again.
GameOverOnce == InSession => gameOvers <= 1

\* C3: a sector jump occurs exactly when an increment of discoveries, by a
\* scan or by a kill, brings it to a multiple of 5.
JumpCadence == last.jumps = last.fives

\* C4: discoveries changes only by +1 for a scan that finds a planet in
\* range, however many are in range, and by +1 for an enemy brought to
\* hp <= 0, and by no other operation; create alone sets it back to 0.
DiscoveryStep ==
  [][ /\ last'.op = "create" => discoveries' = 0
      /\ last'.op = "update" =>
           /\ discoveries' = discoveries + last'.finds
           /\ last'.finds = (IF "E" \in last'.keys /\ last'.near > 0 THEN 1 ELSE 0)
      /\ last'.op = "hitEnemy" =>
           /\ discoveries' = discoveries + (Live - Live')
           /\ Live - Live' \in { 0, 1 }
      /\ last'.op \notin { "create", "update", "hitEnemy" } =>
           discoveries' = discoveries ]_vars

DiscoveryStepSeen ==
  /\ last.op = "update" /\ "E" \in last.keys
  /\ last.near = 2 /\ last.finds = 1 /\ discoveries = 1

\* C5 as stated: the shield goes off exactly 300 ms after its activation.
ShieldOffAt300 == last.op = "shieldOff" => last.elapsed = ShieldWindow

\* C5: a shield trigger while shielded changes neither the flag nor the
\* window; the shield goes off at the first clock update at which the time
\* counted since its activation has reached 300 ms, whatever was triggered
\* meanwhile; a trigger while unshielded starts a new window.
ShieldWindowFixed ==
  /\ [](shield => shieldAge < ShieldWindow)
  /\ [](last.op = "shieldOff" => last.elapsed >= ShieldWindow)
  /\ [][ last'.op = "update" /\ "SHIFT" \in last'.keys =>
           /\ shield'
           /\ shield => shieldAge' = shieldAge /\ shieldTimer' = shieldTimer
           /\ ~ shield => shieldAge' = 0 /\ shieldTimer' = 0 ]_vars
  /\ [][ shield /\ ~ shield' => last'.op \in { "shieldOff", "create" } ]_vars

ShieldRetriggered ==
  /\ last.op = "update" /\ "SHIFT" \in last.keys
  /\ shield /\ shieldAge = 200

\* C6: an overlap of the player and an enemy destroys the enemy; while
\* shielded it has no further effect (hull unchanged, no hull event, no game
\* over), and while unshielded it costs one hull.
ShieldBlocks ==
  [][ last'.op = "playerHit" =>
        /\ Live' = Live - 1
        /\ shield' = shield
        /\ IF shield
           THEN /\ hull' = hull
                /\ last'.emitted = << >>
                /\ queue' = queue
                /\ gameOvers' = gameOvers
           ELSE /\ hull' = hull - 1
                /\ last'.emitted = << { << "hull", hull' >> } >> ]_vars

ShieldBlocked ==
  /\ last.op = "playerHit" /\ shield /\ shieldAge > 0
  /\ last.emitted = << >> /\ hull = 3 /\ Live = 2

\* C7: a spawn adds exactly 3 enemies of one type, with hp 4 for tanks and
\* hp 2 for the other types.
SpawnBatch ==
  [][ last'.op = "update" /\ last'.spawns > 0 =>
        \E t \in { "scout", "tank", "pulsar" } : enemies' = enemies (+) Batch(t) ]_vars

SpawnBatchSeen ==
  /\ last.op = "update" /\ last.spawns = 1
  /\ enemies = Batch("tank")

\* C8: one tick of the director spawns at most one batch, however many
\* periods its delta spans.
OneBatchPerTick ==
  /\ last.spawns <= 1
  /\ last.op = "update" /\ last.spawns = 0 => last.elapsed <= Period

ManyPeriodsOneBatch ==
  /\ last.op = "update" /\ last.elapsed >= 3 * Period
  /\ last.spawns = 1 /\ Live = 3

\* C9: a tick spawns exactly when the accumulator, after adding the delta,
\* is strictly greater than the period; a spawn resets the accumulator to 0
\* and drops the overshoot; otherwise the accumulator keeps the sum.
SpawnThreshold ==
  last.op = "update" =>
    /\ last.spawns = 1 <=> last.elapsed > Period
    /\ last.elapsed > Period => timer = 0
    /\ last.elapsed <= Period => timer = last.elapsed

SpawnAt15001 ==
  /\ last.op = "update" /\ last.elapsed = 15001
  /\ last.spawns = 1 /\ timer = 0 /\ Live = 3

\* C10: two calls of SectorFactory with the same seed return identical
\* star, planet, galaxy and nebula collections, every attribute included.
SameSeedSameSector ==
  Len(gen.results) = 2 => gen.results[1] = gen.results[2]

\* C11: the same state, the same resolved inputs and the same deltaTime
\* always give the same next state: a tick of the session has one outcome,
\* enemy types and hp included, so the session replays from its inputs and
\* deltaTime sequence.
TickReplays ==
  phase = "collide" /\ status["Play"] = "running" =>
    \A t1, t2 \in Types :
      Updated({ }, { }, 0, << 0, 0 >>, << 0, 0 >>, t1).enemies
        = Updated({ }, { }, 0, << 0, 0 >>, << 0, 0 >>, t2).enemies

\* (seed * 16807) mod 2147483647 by Schrage's decomposition, for the check
SeedAfter(s) ==
  LET t == (16807 * (s % 127773)) - (2836 * (s \div 127773))
  IN  IF t < 0 THEN t + 2147483647 ELSE t

\* C12: a jump sets seed to (seed * 16807) mod 2147483647, a function of
\* the seed alone (1000 gives 16807000), and after any number of jumps from
\* a first seed in 0..65535 the seed is an integer in 0..2147483646.
JumpDerivation ==
  /\ [](seed \in 0..2147483646)
  /\ [][ /\ last'.op = "update" /\ last'.jumps = 1 => seed' = SeedAfter(seed)
         /\ last'.op = "update" /\ last'.jumps = 0 => seed' = seed
         /\ seed = 1000 /\ seed' # seed => seed' = 16807000 ]_vars

ThirdJump ==
  /\ last.op = "update" /\ last.jumps = 1
  /\ discoveries = 15 /\ seed = 1299919515

\* C13: every jump of a session whose first seed is in 0..65535 sets a seed
\* different from the one before it, so the Sector is never regenerated as
\* the same Sector.
JumpChangesSeed ==
  [][ last'.op = "update" /\ last'.jumps > 0 => seed' # seed ]_vars

\* C14: every generated Sector has exactly 3 star layers of exactly 200
\* points each, with depth 0.2 + layer * 0.3 (2 + 3 * layer tenths) for
\* layer 0, 1, 2, has 1 or 2 planets, 0 or 1 galaxies and 1 or 2 nebulae,
\* and a generation under way is never stuck: its loops stay inside their
\* limits, where one of its steps is enabled.
SectorShape ==
  /\ \A i \in 1..Len(gen.results) :
       /\ Len(gen.results[i].stars) = 3
       /\ \A l \in 1..3 :
            /\ Len(gen.results[i].stars[l]) = 200
            /\ \A k \in 1..200 : gen.results[i].stars[l][k].depth = 2 + (3 * (l - 1))
       /\ Len(gen.results[i].planets) \in 1..2
       /\ Len(gen.results[i].galaxies) \in 0..1
       /\ Len(gen.results[i].nebulae) \in 1..2
  /\ gen.pc = "stars" => gen.l \in 0..3 /\ Len(gen.layer) \in 0..200
  /\ gen.pc = "stars" /\ gen.l = 3 => gen.layer = << >>
  /\ gen.pc \in { "planets", "galaxies", "nebulae" } => gen.left \in 0..2

SectorShapeSeen ==
  /\ Len(gen.results) = 2 /\ gen.seed = 0
  /\ Len(gen.results[1].stars[3]) = 200
  /\ Len(gen.results[1].planets) = 2
  /\ Len(gen.results[1].galaxies) = 0
  /\ Len(gen.results[2].nebulae) = 1

\* C15: the number of live projectiles never exceeds the fixed bound of
\* the pool (3 in the spec's scenario, where a 4th fire is dropped): a fire
\* request made with the pool exhausted creates no projectile.
BulletPoolBound == Len(bullets) <= 3

\* C16: the number of live enemies never exceeds a fixed bound, also in a
\* session in which the player never hits or touches an enemy; stated for
\* the bound of three batches: a spawn beyond it is dropped or makes room.
EnemyBound == BagCardinality(enemies) <= 3 * BatchSize

\* The active top-level scene; GameOver is the Play scene after gameOver()
TopScene ==
  IF status["Play"] = "stopped" THEN "Title"
  ELSE IF gameOvers > 0 THEN "GameOver" ELSE "Playing"

\* C17: the top-level scene changes only along Title -> Playing -> GameOver
\* -> Title: Playing is entered only from Title, it is hull <= 0 that moves
\* Playing to GameOver, Title is re-entered only from GameOver, and no new
\* Playing session is created before that return to Title.
SceneOrder ==
  [][ /\ TopScene' # TopScene =>
           << TopScene, TopScene' >> \in { << "Title", "Playing" >>,
                                           << "Playing", "GameOver" >>,
                                           << "GameOver", "Title" >> }
      /\ TopScene = "Playing" => (TopScene' = "GameOver" <=> hull' <= 0)
      /\ last'.op = "create" => TopScene = "Title" /\ last'.creates = 1 ]_vars

\* C18: every entry into Playing, the first and each one after a game
\* over, starts with hull 3, shield false, discoveries 0, a Sector newly
\* generated from the session's seed, no projectile and no enemy left from
\* the session before, and an encounter timer of 0.
FreshSession ==
  [][ last'.op = "create" =>
        /\ hull' = 3 /\ shield' = FALSE /\ discoveries' = 0
        /\ shieldTimer' = -1
        /\ sector' = SectorFactory(seed')
        /\ bullets' = << >> /\ enemies' = EmptyBag
        /\ timer' = 0 ]_vars

\* photo mode is on only through an earlier session: this is a second entry
SecondSession ==
  /\ last.op = "create" /\ photo
  /\ hull = 3 /\ timer = 0 /\ enemies = EmptyBag

\* The game state C19 names, but for the player's position, which is an
\* input of the frames here
GameState == << hull, discoveries, shield, shieldTimer, bullets, enemies,
                timer, seed, sector >>

StepRank(order, name) == CHOOSE i \in 1..Len(order) : name \in order[i]
InOrder(steps, order) ==
  \A i, j \in 1..Len(steps) :
    i < j => StepRank(order, steps[i]) <= StepRank(order, steps[j])
Actions == { "fire", "scan", "shield", "photo", "pause" }

\* C20 as it is stated: the director's tick, then the cleanup, then the
\* action effects.
DirectorCleanupActions ==
  last.op = "update" => InOrder(last.steps, << { "director" }, { "cleanup" }, Actions >>)

\* C20: within each tick the steps run in the fixed order: the scene's
\* clock, physics integration, collision resolution, then update: the
\* action effects (fire, scan, shield, photo toggle, pause), the projectile
\* cleanup, the EncounterDirector's tick; the action effects run before the
\* cleanup and the director's tick runs after both, so that no projectile
\* above the top margin outlives the tick that fired it.
TickOrder ==
  /\ [](last.op = "update" =>
          /\ InOrder(last.steps, << Actions, { "cleanup" }, { "director" } >>)
          /\ Len(last.steps) >= 2
          /\ last.steps[Len(last.steps) - 1] = "cleanup"
          /\ last.steps[Len(last.steps)] = "director"
          /\ \A i \in 1..Len(bullets) : bullets[i] >= CleanupY)
  /\ [][ /\ last'.op = "world" => last.op \in { "clock", "shieldOff" }
         /\ last'.op \in { "playerHit", "hitEnemy" } =>
              last.op \in { "world", "playerHit", "hitEnemy",
                            "padConnected", "padDisconnected" }
         /\ last'.op = "update" =>
              last.op \in { "world", "playerHit", "hitEnemy",
                            "padConnected", "padDisconnected" } ]_vars

\* a projectile fired above the top margin and removed by the same update
FiredAndCleaned ==
  /\ last.op = "update" /\ last.keys = { "SPACE" }
  /\ last.steps = << "fire", "cleanup", "director" >>
  /\ bullets = << >>

\* C21: a change of window.GFX made while a session is played is in effect
\* from the next tick on: after every update the camera's chain is that of
\* the enabled stages, the star emitters emit at the configured density,
\* and the director has compared its timer with the configured period.
ConfigLive ==
  last.op = "update" =>
    /\ camera = Stages(gfx)
    /\ \A i \in 1..Len(stage.stars) : stage.stars[i].quantity = Quantity(gfx)
    /\ last.spawns = 1 <=> last.elapsed > Period

\* C22: a scan with no planet of the active Sector in range changes no game
\* state (discoveries, seed, Sector, hull and shield stay as they are) and
\* emits no HUD event, so the HUD keeps what it shows.
EmptyScan ==
  [][ last'.op = "update" /\ last'.keys = { "E" } /\ last'.near = 0 =>
        /\ UNCHANGED << discoveries, seed, sector, hull, shield >>
        /\ last'.emitted = << >> /\ last'.jumps = 0
        /\ hud' = hud ]_vars

\* a scan has run in an update and found no planet in range
EmptyScanSeen ==
  /\ last.op = "update" /\ last.keys = { "E" } /\ last.near = 0
  /\ last.steps = << "scan", "cleanup", "director" >>

\* The last operation has run the part name of update
Ran(name) == \E i \in 1..Len(last.steps) : last.steps[i] = name

Emitted(key) ==
  \E i \in 1..Len(last.emitted) : \E x \in last.emitted[i] : x[1] = key

\* C24 as it is stated: while photo mode is active the core emits no
\* discoveries, hull or sector event.
PhotoSilent ==
  photo => ~ (Emitted("discoveries") \/ Emitted("hull") \/ Emitted("sector"))

\* C24: photo mode hides the HUD and silences nothing: the toggle emits a
\* photo event, on which the HUD hides its elements when the mode goes on
\* and shows them when it goes off, so the HUD is hidden exactly while photo
\* mode is active; in that time the core keeps emitting the discoveries,
\* hull and sector events of every change, and the HUD keeps writing them
\* into its hidden elements.
PhotoHidesHud ==
  /\ [](hud.hidden = photo)
  /\ [][ photo /\ photo' /\ last'.op \in { "update", "playerHit", "hitEnemy" } =>
           /\ discoveries' # discoveries =>
                /\ \E i \in 1..Len(last'.emitted) :
                     << "discoveries", discoveries' >> \in last'.emitted[i]
                /\ hud'.discoveries = discoveries'
           /\ hull' # hull =>
                /\ last'.emitted = << { << "hull", hull' >> } >>
                /\ hud'.hull = hull'
           /\ last'.jumps > 0 =>
                /\ \E i \in 1..Len(last'.emitted) :
                     << "sector", seed' >> \in last'.emitted[i]
                /\ hud'.sector = seed' ]_vars

\* in photo mode, the HUD hidden, an enemy has hit the player: the hull
\* event was emitted and the hidden HUD has the new hull
PhotoHit ==
  /\ photo /\ hud.hidden
  /\ last.op = "playerHit" /\ last.emitted = << { << "hull", hull >> } >>
  /\ hud.hull = hull /\ hull = 2

\* C25: in every state, over the toggles and the sessions, the bloom
\* intensity is 1.2 exactly when photo mode is active and 0.6 otherwise;
\* each togglePhoto flips the flag and emits a photo event carrying the new
\* flag, and two toggles in a row give back the flag and the intensity.
BloomFollowsPhoto ==
  /\ [](bloom = (IF photo THEN 12 ELSE 6))
  /\ [](TogglePhoto(TogglePhoto(World)).photo = photo
        /\ TogglePhoto(TogglePhoto(World)).bloom = bloom
        /\ TogglePhoto(World).photo = ~ photo
        /\ TogglePhoto(World).emitted = << { << "photo", ~ photo >> } >>)
  /\ [][ last'.op = "update" =>
           IF "O" \in last'.keys
           THEN photo' = ~ photo /\ last'.emitted = << { << "photo", photo' >> } >>
           ELSE photo' = photo ]_vars
  /\ [][ last'.op # "update" => photo' = photo /\ bloom' = bloom ]_vars

\* a toggle has turned photo mode off again and the intensity is back at
\* 0.6, in a session whose create event the HUD has heard (not the first)
PhotoOffAgain ==
  /\ last.op = "update" /\ last.keys = { "O" }
  /\ ~ photo /\ bloom = 6 /\ hud.hull = 3 /\ hud.discoveries = 0

\* C26: after every tick of a session the post-process chain of the camera
\* consists of exactly the stages enabled in the configuration, bloom
\* first, then vignette; a disabled stage is not attached.
ChainIsEnabledStages ==
  last.op = "update" =>
    camera = (IF gfx.bloom THEN << "bloom" >> ELSE << >>) \o
             (IF gfx.vignette THEN << "vignette" >> ELSE << >>)

\* C27: exactly one Sector is live at a time: in a session the scene holds
\* the entities of the active Sector and no other: its star emitters, one
\* planet with its ring for each of its planets, its nebulae.
OneSectorLive ==
  status["Play"] = "running" =>
    /\ Len(stage.stars) = 1 /\ stage.stars[1].sector = sector.name
    /\ stage.planets = << [ i \in 1..sector.planets |-> sector.name ] >>
    /\ stage.nebulae = << sector.name >>

\* C28: after any number of calls of initParticlesBackground(), at least
\* one, the body holds exactly one element with id particles-canvas, with
\* one resize listener and one animation loop; a call made when the canvas
\* exists changes nothing of the page.
OneParticlesCanvas ==
  /\ [](page.calls >= 1 =>
          page.canvases = 1 /\ page.resizers = 1 /\ page.loops = 1)
  /\ [](page.calls = 0 => page.canvases = 0)
  /\ [][ page'.calls = page.calls + 1 /\ page.canvases >= 1 =>
           /\ page'.canvases = page.canvases /\ page'.resizers = page.resizers
           /\ page'.loops = page.loops /\ page'.particles = page.particles
           /\ page'.frames = page.frames
           /\ page'.width = page.width /\ page'.height = page.height ]_vars

\* a second call has been made, frames were drawn and the window resized
SecondInit ==
  /\ page.calls = 2 /\ page.canvases = 1
  /\ page.frames = 3 /\ page.width = 800 /\ page.height = 600
  /\ page.particles = 50 /\ page.loaded

\* C29: every live enemy has hp >= 1, and at most the hp of its type: each
\* overlap of a projectile and an enemy destroys the projectile and takes
\* exactly 1 from that enemy's hp, and the enemy is destroyed in the same
\* step in which its hp reaches 0; so a tank (4 hp) dies on exactly its 4th
\* hit and a scout or pulsar (2 hp) on its 2nd, and a destroyed enemy, no
\* longer in the group, is in no later collision.
EnemyHp ==
  /\ [](\A e \in BagToSet(enemies) :
          e.hp >= 1 /\ e.hp <= (IF e.type = "tank" THEN 4 ELSE 2))
  /\ [][ last'.op = "hitEnemy" =>
           /\ Len(bullets') = Len(bullets) - 1
           /\ \E e \in BagToSet(enemies) :
                \/ /\ e.hp = 1 /\ last'.kills = 1
                   /\ enemies' = enemies (-) SetToBag({ e })
                \/ /\ e.hp > 1 /\ last'.kills = 0
                   /\ enemies' = (enemies (-) SetToBag({ e }))
                                   (+) SetToBag({ [ type |-> e.type, hp |-> e.hp - 1 ] }) ]_vars
  /\ [][ BagCardinality(enemies') < BagCardinality(enemies) =>
           last'.op = "manager" \/ (last'.op = "hitEnemy" /\ last'.kills = 1) ]_vars

\* a tank has died: the two other tanks of its batch are untouched, and a
\* hit has just brought one enemy to hp 0
TankKilled ==
  /\ last.op = "hitEnemy" /\ last.kills = 1
  /\ enemies = SetToBag({ [ type |-> "tank", hp |-> 4 ] })
                 (+) SetToBag({ [ type |-> "tank", hp |-> 4 ] })

\* C30: every overlap of the player and an enemy destroys the enemy,
\* shielded or not; unshielded it also takes exactly 1 from hull and emits
\* a hull event carrying the new hull; with hull 1 one overlap makes hull 0
\* and calls gameOver, which ends the session at the next frame.
PlayerOverlap ==
  /\ [][ last'.op = "playerHit" =>
           /\ \E e \in BagToSet(enemies) : enemies' = enemies (-) SetToBag({ e })
           /\ BagCardinality(enemies') = BagCardinality(enemies) - 1
           /\ IF shield
              THEN hull' = hull /\ last'.emitted = << >> /\ queue' = queue
              ELSE /\ hull' = hull - 1
                   /\ last'.emitted = << { << "hull", hull - 1 >> } >>
                   /\ hull = 1 => /\ hull' = 0
                                  /\ gameOvers' = gameOvers + 1
                                  /\ queue' = queue \o << Op("stop", "HUD"),
                                                          Op("stop", "Play"),
                                                          Op("start", "Title") >>
                   /\ hull > 1 => queue' = queue /\ gameOvers' = gameOvers ]_vars
  /\ [][ gameOvers > 0 /\ last'.op = "manager" =>
           status'["Play"] = "stopped" /\ status'["Title"] = "running" ]_vars

\* the last hull point is lost to one overlap: hull 0, gameOver called once
LastHull ==
  /\ last.op = "playerHit" /\ last.emitted = << { << "hull", 0 >> } >>
  /\ hull = 0 /\ gameOvers = 1 /\ ~ shield

\* C31: a scan finds a planet exactly when a planet of the active sector is
\* at 150 units or nearer to the player, 150 included, and the planets it
\* tests are those of the active sector and no others.
ScanWithin150 ==
  [][ last'.op = "update" /\ "E" \in last'.keys =>
        /\ last'.finds = 1 <=> last'.within > 0
        /\ last'.tested = [ i \in 1..sector.planets |-> sector.name ] ]_vars

\* the part of C31 on the sprites tested: after a jump the scan tests the
\* planets of the new sector only
ScanTestsActiveSector ==
  [][ last'.op = "update" /\ "E" \in last'.keys =>
        /\ last'.finds = 1 <=> last'.near > 0
        /\ last'.tested = [ i \in 1..sector.planets |-> sector.name ] ]_vars

ScanAfterJump ==
  /\ last.op = "update" /\ "E" \in last.keys
  /\ Len(stage.planets) > 1 /\ last.jumps = 0

\* C32: the type of a spawn is a weighted choice over the sector's
\* encounterWeights, scout 0.7, tank 0.2, pulsar 0.1: of PickGrid spawns
\* whose draws are spread evenly over [0, 1) a share of 0.7 are scouts, 0.2
\* tanks and 0.1 pulsars, and a type of weight 0 is in none.
WeightedChoice ==
  BagCardinality(enemies) = BatchSize * PickGrid =>
    \A t \in Types :
      10 * CopiesIn([ type |-> t, hp |-> IF t = "tank" THEN 4 ELSE 2 ], enemies)
        = EncounterWeights[t] * BatchSize * PickGrid

\* the shares weightedPick gives: at most half of the spawns are scouts
\* and more than a tenth are pulsars, with either m
PickShares ==
  BagCardinality(enemies) = BatchSize * PickGrid =>
    /\ 20 * CopiesIn([ type |-> "scout", hp |-> 2 ], enemies)
          \in (9 * BatchSize * PickGrid)..(10 * BatchSize * PickGrid)
    /\ 10 * CopiesIn([ type |-> "pulsar", hp |-> 2 ], enemies) > BatchSize * PickGrid

AllPicked == BagCardinality(enemies) = BatchSize * PickGrid

\* C33: every projectile is short-lived.  As long as the frames of the Play
\* scene keep coming, with a positive delta, a projectile that fire has
\* created is in the end destroyed: every such frame moves it up, after the
\* cleanup of update no projectile is above the top edge by more than 50
\* units (y < -50), and it leaves this.bullets by hitEnemy, by that cleanup
\* or with the session that held it, and by nothing else.
ShortLived ==
  /\ ([]<>(last.op = "world" /\ delta > 0) /\ []<>(last.op = "update"))
       => (mark # 0 ~> mark = 0)
  /\ [][ last'.op = "world" /\ delta > 0 =>
           /\ Len(bullets') = Len(bullets)
           /\ \A i \in 1..Len(bullets) : bullets'[i] < bullets[i] ]_vars
  /\ [](last.op = "update" => \A i \in 1..Len(bullets) : bullets[i] >= CleanupY)
  /\ [][ Len(bullets') < Len(bullets) \/ (mark # 0 /\ mark' = 0) =>
           \/ last'.op \in { "hitEnemy", "manager" }
           \/ last'.op = "update" /\ last'.cleaned > 0 ]_vars

\* the cleanup has destroyed a projectile that has left the screen in
\* flight, in a session with enemies that goes on
FlownOut ==
  /\ last.op = "update" /\ last.cleaned = 1 /\ ~ Ran("fire")
  /\ enemies # EmptyBag /\ queue = << >>

\* How many times update has run its part name in the last frame
Runs(name) == Cardinality({ i \in 1..Len(last.steps) : last.steps[i] = name })

\* C34: each action runs at most once in a tick, whatever keys and pad
\* buttons are down in it: update calls fire, scan and shield at most once
\* each, so a tick adds at most one projectile and at most one discovery.
OncePerTick ==
  [][ last'.op = "update" =>
        /\ Runs("fire")' <= 1 /\ Runs("scan")' <= 1 /\ Runs("shield")' <= 1
        /\ Len(bullets') <= Len(bullets) + 1
        /\ discoveries' <= discoveries + 1 ]_vars

\* a tick of the keyboard and the pad together that has fired twice
FiredTwice == last.op = "update" /\ Runs("fire") = 2 /\ last.keys = { "SPACE", "fire" }

\* The value of the field key in the last of the events evs that carries
\* it, in a set; empty when none does
LastSent(evs, key) ==
  LET at == { i \in 1..Len(evs) : \E x \in evs[i] : x[1] = key }
  IN  IF at = { } THEN { }
      ELSE { x[2] : x \in { y \in evs[CHOOSE i \in at : \A j \in at : j <= i] : y[1] = key } }

\* C35: the events follow the state: an operation that changes discoveries,
\* hull or the sector emits an updateHud event with the new value, and the
\* last value an operation emits for a field is the field's value after it;
\* the sector's name is that of the current seed.  So the last discoveries,
\* hull and sector name emitted are the current ones.
HudTracks ==
  [][ /\ discoveries' # discoveries =>
           LastSent(last'.emitted, "discoveries") = { discoveries' }
      /\ hull' # hull => LastSent(last'.emitted, "hull") = { hull' }
      /\ sector' # sector => LastSent(last'.emitted, "sector") = { sector'.name }
      /\ LastSent(last'.emitted, "discoveries") \subseteq { discoveries' }
      /\ LastSent(last'.emitted, "hull") \subseteq { hull' }
      /\ LastSent(last'.emitted, "sector") \subseteq { sector'.name }
      /\ last'.op = "create" =>
           /\ LastSent(last'.emitted, "discoveries") = { 0 }
           /\ LastSent(last'.emitted, "hull") = { 3 }
           /\ LastSent(last'.emitted, "sector") = { seed' }
      /\ status'["Play"] = "running" => sector'.name = seed' ]_vars

\* the fifth discovery of a session, by a scan: a discoveries event, then
\* the jump's sector event
JumpSent ==
  /\ last.op = "update" /\ last.jumps = 1 /\ discoveries = 5
  /\ last.emitted = << { << "discoveries", 5 >> }, { << "sector", seed >> } >>

\* C36: the HUD receives the event PlayScene.create emits: in every session,
\* the first included, its elements show discoveries 0, hull 3 and the
\* sector's name once the session has been created.
InitialEventHeard ==
  [][ last'.op = "create" =>
        /\ hud'.listening
        /\ hud'.discoveries = 0 /\ hud'.hull = 3 /\ hud'.sector = sector'.name ]_vars

\* from the second session on the listeners of the sessions before are on
\* play.events when create emits
LaterEventHeard ==
  [][ last'.op = "create" /\ hud.listening =>
        hud'.discoveries = 0 /\ hud'.hull = 3 /\ hud'.sector = sector'.name ]_vars

SecondEventHeard ==
  /\ last.op = "create" /\ hud.listening /\ hud.sector = sector.name
  /\ hud.discoveries = 0

\* What C37 says a pause leads to: the Play scene paused and no other scene
\* started or ended, no step of the session and no change of its state
StaysPaused ==
  /\ status'["Play"] = "paused" /\ status'["Title"] = "stopped"
  /\ status'["HUD"] = status["HUD"]
  /\ last'.op \in { "manager", "input" }
  /\ UNCHANGED GameState /\ UNCHANGED gameOvers

PauseAbsorbingUnlessOver ==
  [][ /\ (last.op = "update" /\ Ran("pause") /\ gameOvers = 0)
            \/ status["Play"] = "paused" => StaysPaused
      /\ last.op = "update" /\ Ran("pause") /\ gameOvers > 0 =>
            status'["Play"] = "stopped" /\ status'["Title"] = "running" ]_vars

\* a pointer click has reached the paused game, after a hit on the player
ClickWhilePaused ==
  /\ status["Play"] = "paused" /\ last.op = "input" /\ last.keys = { "pointer" }
  /\ hull < 3

\* The value of window.GFX.encounterPeriod, 0 where the field is missing
Configured == IF "encounterPeriod" \in DOMAIN gfx THEN gfx.encounterPeriod ELSE 0

\* C38: a tick of the director uses the encounterPeriod configured at that
\* tick when it is positive and 15000 ms when it is missing or 0: it spawns
\* exactly when its timer has passed that period, so that a period of 0 does
\* not spawn on every tick.
PeriodUsed ==
  [][ last'.op = "update" =>
        \E p \in { IF Configured > 0 THEN Configured ELSE 15000 } :
          /\ last'.elapsed = timer + delta
          /\ last'.spawns = (IF timer + delta > p THEN 1 ELSE 0)
          /\ timer' = (IF timer + delta > p THEN 0 ELSE timer + delta) ]_vars

\* A tick with the period set to 0 and 15000 ms on the timer spawns nothing
ZeroPeriodQuiet ==
  /\ last.op = "update"
  /\ "encounterPeriod" \in DOMAIN gfx /\ gfx.encounterPeriod = 0
  /\ last.elapsed = 15000 /\ last.spawns = 0

\* A tick with the period deleted spawns once 15000 ms are passed
MissingPeriodSpawns ==
  /\ last.op = "update"
  /\ "encounterPeriod" \notin DOMAIN gfx
  /\ last.elapsed = 22500 /\ last.spawns = 1

\* A tick with a period of 5000 ms spawns on a delta of 7500 ms
ShortPeriodSpawns ==
  /\ last.op = "update"
  /\ Configured = 5000
  /\ last.elapsed = 7500 /\ last.spawns = 1

\* C39: a slider's index stays in 0..n-1 and, once a click has set it, the
\* shown image is images[index]; next then prev, and prev then next, come
\* back to the index they left; prev at index 0 goes to n-1; n next clicks
\* in a row come back to the index they left; a click changes no other
\* slider, whatever the clicks on the others in between.
SliderLaws ==
  /\ [](\A s \in 1..Len(sliders.of) :
          \E sl \in { sliders.of[s] } : \E n \in { Galleries[sl.gallery] } :
            /\ sl.index \in 0..(n - 1)
            /\ sl.clicked => sl.src = << sl.gallery, sl.index >>
            /\ Len(sl.trail) = 2 /\ sl.trail[1].op # sl.trail[2].op
                 => sl.index = sl.trail[1].index
            /\ Len(sl.trail) >= 1 /\ sl.trail[Len(sl.trail)].op = "prev"
                 /\ sl.trail[Len(sl.trail)].index = 0
                 => sl.index = n - 1
            /\ sl.run = n => sl.index = sl.from)
  /\ [][ Len(sliders'.of) = Len(sliders.of) =>
           \E s \in 1..Len(sliders.of) :
             \A t \in 1..Len(sliders.of) \ { s } : sliders'.of[t] = sliders.of[t] ]_vars

\* Eleven next clicks from index 4 on the second slider, after the first
\* slider has gone prev from 0 and next again
SliderRound ==
  /\ Len(sliders.of) = 2
  /\ sliders.of[2].gallery = "massoorie"
  /\ sliders.of[2].run = 11 /\ sliders.of[2].from = 4 /\ sliders.of[2].index = 4
  /\ sliders.of[2].src = << "massoorie", 4 >>
  /\ sliders.of[1].trail = << [ op |-> "prev", index |-> 0 ],
                              [ op |-> "next", index |-> 2 ] >>
  /\ sliders.of[1].index = 0 /\ sliders.of[1].src = << "tirupati", 0 >>

\* Two sliders of the same gallery at different images
SameGalleryApart ==
  /\ Len(sliders.of) = 2
  /\ sliders.of[1].gallery = sliders.of[2].gallery
  /\ sliders.of[1].index = 2 /\ sliders.of[2].index = 1
  /\ sliders.of[1].clicked /\ sliders.of[2].clicked

====
